---- MODULE Spec2Model ----
(***************************************************************************)
(* Room sharing for pretix: rooms, room definitions (quotas) and the       *)
(* OrderRoom memberships that link a cart session or an order to a room,   *)
(* the checkout / post-order / operator handlers that change them, and the *)
(* batch randomizer (RandomizeView.randomize_rooms).                       *)
(*                                                                         *)
(* One buyer stands for one cart session that may become one order; the    *)
(* buyer's name is used both as cart_id and as order code.                 *)
(***************************************************************************)
EXTENDS Integers, Sequences, FiniteSets, TLC

\* ------------------------------------------------------------------ bounds
MaxRoomPk == 5          \* primary keys handed out to Room rows
MaxOrderRoomPk == 4     \* primary keys handed out to OrderRoom rows
MaxInputRooms == 2      \* rooms that exist when the randomizer is first run

Buyers == {"b1", "b2", "b3"}
BuyerRank == [b \in Buyers |-> IF b = "b1" THEN 1 ELSE IF b = "b2" THEN 2 ELSE 3]
Defs == {"d1", "d2"}
DefSeq == <<"d1", "d2">>            \* RoomDefinition.Meta.ordering = ("name",)
Items == {"i1", "i2", "ix"}
DefItems == [d \in Defs |-> IF d = "d1" THEN {"i1"} ELSE {"i2"}]
RoomNames == {"n1", "n2", "n3"}
NameRank == [n \in RoomNames |-> IF n = "n1" THEN 1 ELSE IF n = "n2" THEN 2 ELSE 3]
None == "None"
NoPk == 0

\* (capacity, extra_capacity, max_rooms) values the operator may configure
\* for the first room definition; all three are PositiveIntegerFields, so 0
\* is a legal value.
DefinitionValues ==
    { [capacity |-> 0, extra_capacity |-> 0, max_rooms |-> 1],
      [capacity |-> 1, extra_capacity |-> 1, max_rooms |-> 2],
      [capacity |-> 1, extra_capacity |-> 0, max_rooms |-> 2],
      [capacity |-> 2, extra_capacity |-> 0, max_rooms |-> 1] }
SecondDefinition == [capacity |-> 1, extra_capacity |-> 0, max_rooms |-> 1]

\* the positions (items) each buyer holds
ItemAssignments ==
    { [b \in Buyers |-> IF b = "b3" THEN {"i1", "i2"} ELSE {"i1"}],
      [b \in Buyers |-> IF b = "b1" THEN {"i1"} ELSE IF b = "b2" THEN {"i2"} ELSE {"ix"}] }

VARIABLES
    definitions,        \* [Defs -> [capacity, extra_capacity, max_rooms]]
    positions,          \* [Buyers -> SUBSET Items]: items of the cart / order
    allow_optout,       \* event setting roomsharing_room_host_random_control
    rooms,              \* pk -> [room_definition, name, password, disable_random_extra,
                        \*        optout_random_extra]
    orderrooms,         \* pk -> [order, cart_id, room, is_admin]
    next_room_pk,
    next_orderroom_pk,
    cart,               \* [Buyers -> "valid" | "expired" | "gone"]
    session,            \* [Buyers -> [room_mode, room_join, room_create]]
    orders,             \* [Buyers -> "absent" | "n" | "p" | "e" | "c"]
    placed,             \* sequence of order codes in order of placement
    alloc,              \* local state of a running randomize_rooms call
    last,               \* the last handler that ran and its outcome
    txn                 \* [Txns -> the state of a request that runs concurrently]

vars == <<definitions, positions, allow_optout, rooms, orderrooms, next_room_pk,
          next_orderroom_pk, cart, session, orders, placed, alloc, last, txn>>

\* what no handler that runs alone changes: the operator's configuration and
\* the requests in flight
config == <<definitions, positions, allow_optout, txn>>

\* ------------------------------------------------------------ generic helpers
Min(S) == CHOOSE x \in S : \A y \in S : x <= y

Without(f, D) == [k \in DOMAIN f \ D |-> f[k]]

With(f, k, v) == [x \in DOMAIN f \cup {k} |-> IF x = k THEN v ELSE f[x]]

RECURSIVE SeqOfSet(_, _)
\* the elements of S as a sequence in ascending rank (rank is a function on S)
SeqOfSet(S, rank) ==
    IF S = {} THEN <<>>
    ELSE LET x == CHOOSE y \in S : \A z \in S : rank[y] <= rank[z]
         IN <<x>> \o SeqOfSet(S \ {x}, rank)

Range(s) == {s[i] : i \in 1..Len(s)}

\* ------------------------------------------------------------------ models.py
STATUS_VALID == {"n", "p"}          \* Order.STATUS_PENDING, Order.STATUS_PAID

\* the filter of Room.get_valid_room_orders / RoomDefinition.get_valid_room_count
\* applied to one OrderRoom row m whose room belongs to definition d
valid_filter(m, d) ==
    \/ /\ m.cart_id # None
       /\ cart[m.cart_id] = "valid"
       /\ positions[m.cart_id] \cap DefItems[d] # {}
    \/ /\ m.order # None
       /\ orders[m.order] \in STATUS_VALID

get_valid_room_orders(R, M, r) ==
    {k \in DOMAIN M : M[k].room = r /\ valid_filter(M[k], R[r].room_definition)}

get_valid_room_count(R, M, d) ==
    Cardinality({r \in DOMAIN R :
        /\ R[r].room_definition = d
        /\ \E k \in DOMAIN M : M[k].room = r /\ valid_filter(M[k], d)})

is_available(R, M, d) == get_valid_room_count(R, M, d) < definitions[d].max_rooms

\* a comparison with the definition's capacity, plus extra_capacity when the
\* caller's flag is set
has_capacity_of_definition(R, M, r, extra_capacity) ==
    Cardinality(get_valid_room_orders(R, M, r))
        < definitions[R[r].room_definition].capacity
          + (IF extra_capacity THEN definitions[R[r].room_definition].extra_capacity ELSE 0)

\* Room.has_capacity as the model file defines it: the valid occupants are
\* compared with the definition's max_rooms; the flag the callers pass does
\* not enter the comparison.
has_capacity(R, M, r, extra_capacity) ==
    Cardinality(get_valid_room_orders(R, M, r)) < definitions[R[r].room_definition].max_rooms

Room_is_valid(R, M, r) == Cardinality(get_valid_room_orders(R, M, r)) # 0

OrderRoom_is_valid(m) ==
    IF m.cart_id # None
    THEN cart[m.cart_id] = "valid" /\ positions[m.cart_id] # {}
    ELSE orders[m.order] \in STATUS_VALID

\* Room.touch: returns the tables after the call
touch(R, M, r) ==
    LET valid == get_valid_room_orders(R, M, r) IN
    IF valid = {}
    THEN [rooms |-> Without(R, {r}),
          orderrooms |-> Without(M, {k \in DOMAIN M : M[k].room = r})]
    ELSE IF \E k \in valid : M[k].is_admin
    THEN [rooms |-> R, orderrooms |-> M]
    ELSE [rooms |-> R,
          orderrooms |-> [M EXCEPT ![Min(valid)].is_admin = TRUE]]

\* touch called on a room that is gone: the instance has no primary key
\* left, the queries and self.delete() raise ValueError, and the except
\* clause of touch only catches Room.DoesNotExist
touch_raises(R, r) == r \notin DOMAIN R

\* a delete whose post_delete receiver does not run
delete_orderroom_untouched(R, M, k) == [rooms |-> R, orderrooms |-> Without(M, {k})]

\* OrderRoom.delete() followed by the post_delete receiver
delete_orderroom(R, M, k) ==
    LET r == M[k].room
        M1 == Without(M, {k})
    IN IF r \in DOMAIN R THEN touch(R, M1, r) ELSE [rooms |-> R, orderrooms |-> M1]

\* the OrderRoom row of an order (one-to-one), or NoPk
orderroom_of(M, o) ==
    IF \E k \in DOMAIN M : M[k].order = o
    THEN CHOOSE k \in DOMAIN M : M[k].order = o
    ELSE NoPk

\* a check that never finds the order's row
has_orderroom_unchecked(M, o) == FALSE

\* hasattr(order, "orderroom")
has_orderroom(M, o) == orderroom_of(M, o) # NoPk

\* the room with a given name (unique per event), or NoPk
room_named(R, n) ==
    IF \E r \in DOMAIN R : R[r].name = n
    THEN CHOOSE r \in DOMAIN R : R[r].name = n
    ELSE NoPk

\* definitions reachable from a set of items
definitions_of(its) == {d \in Defs : DefItems[d] \cap its # {}}

has_applicable_positions(b) == definitions_of(positions[b]) # {}

\* the passwords a buyer may type; a room is created with the first one
Passwords == {"pw1", "pw2"}

CreatePassword == "pw1"

NewRoom(d, n) ==
    [room_definition |-> d, name |-> n, password |-> CreatePassword,
     disable_random_extra |-> FALSE, optout_random_extra |-> FALSE]

NoSession == [room_mode |-> "absent", room_join |-> NoPk, room_create |-> NoPk]

Idle == [pc |-> "idle"]

\* two requests may be in flight at the same time
Txns == {"t1", "t2"}

NoTxns == [t \in Txns |-> Idle]

Init ==
    /\ definitions \in {[d \in Defs |-> IF d = "d1" THEN v ELSE SecondDefinition] :
                            v \in DefinitionValues}
    /\ positions \in ItemAssignments
    /\ allow_optout = FALSE
    /\ rooms = <<>>
    /\ orderrooms = <<>>
    /\ next_room_pk = 1
    /\ next_orderroom_pk = 1
    /\ cart = [b \in Buyers |-> "valid"]
    /\ session = [b \in Buyers |-> NoSession]
    /\ orders = [b \in Buyers |-> "absent"]
    /\ placed = <<>>
    /\ alloc = Idle
    /\ last = [op |-> "init"]
    /\ txn = NoTxns

ran(op, ok) == [op |-> op, ok |-> ok]

\* the outcome of a handler that was asked to give an order a room
asked(op, ok, order) == [op |-> op, ok |-> ok, order |-> order]

\* the outcome of a handler that deleted OrderRoom row k (NoPk: there was
\* none): the room the row was in and whether it was its administrator
removed(op, M, k) ==
    [op |-> op, ok |-> TRUE, row |-> k,
     room |-> IF k = NoPk THEN NoPk ELSE M[k].room,
     admin |-> k # NoPk /\ M[k].is_admin]

NotRunning == alloc.pc = "idle"

\* Room.touch is called on room r (by the post_delete receiver or by a join
\* that moved a membership into r)
Touch(r) ==
    /\ NotRunning
    /\ r \in DOMAIN rooms
    /\ rooms' = touch(rooms, orderrooms, r).rooms
    /\ orderrooms' = touch(rooms, orderrooms, r).orderrooms
    /\ last' = [op |-> "touch", ok |-> TRUE, room |-> r]
    /\ UNCHANGED <<config, next_room_pk, next_orderroom_pk, cart, session, orders,
                   placed, alloc>>

\* --------------------------------------------------------- checkoutflow.py
in_checkout(b) == cart[b] \in {"valid", "expired"} /\ orders[b] = "absent"

\* the OrderRoom row with this cart_id (RoomStep.post_room_join, line 199)
orderroom_of_cart(M, c) ==
    IF \E k \in DOMAIN M : M[k].cart_id = c
    THEN CHOOSE k \in DOMAIN M : M[k].cart_id = c
    ELSE NoPk

\* RoomJoinForm.clean: the named room exists and is valid (the password the
\* buyer types is the room's password)
join_form_valid(n) ==
    /\ room_named(rooms, n) # NoPk
    /\ Room_is_valid(rooms, orderrooms, room_named(rooms, n))

\* RoomStep.available_room_definitions / OrderRoomChange.available_room_definitions
available_room_definitions(b) ==
    {d \in definitions_of(positions[b]) : is_available(rooms, orderrooms, d)}

\* RoomCreateForm.clean_name with `current` excluded from the duplicate check
clean_name_ok(n, current) ==
    LET r == room_named(rooms, n) IN
    \/ r = NoPk
    \/ r = current
    \/ ~Room_is_valid(rooms, orderrooms, r)

\* RoomStep.post with room_mode = "join"
CheckoutJoin(b, n) ==
    /\ NotRunning
    /\ in_checkout(b)
    /\ has_applicable_positions(b)
    /\ IF ~join_form_valid(n)
       THEN /\ session' = [session EXCEPT ![b].room_mode = "join"]
            /\ last' = ran("checkout_join", FALSE)
            /\ UNCHANGED <<rooms, orderrooms, next_orderroom_pk>>
       ELSE LET room == room_named(rooms, n)
                order_room == orderroom_of_cart(orderrooms, b)
            IN
            IF order_room # NoPk /\ orderrooms[order_room].room = room
            THEN /\ session' = [session EXCEPT ![b].room_mode = "join"]
                 /\ last' = ran("checkout_join", TRUE)
                 /\ UNCHANGED <<rooms, orderrooms, next_orderroom_pk>>
            ELSE IF ~has_capacity(rooms, orderrooms, room, FALSE)
            THEN /\ session' = [session EXCEPT ![b].room_mode = "join"]
                 /\ last' = ran("checkout_join", FALSE)
                 /\ UNCHANGED <<rooms, orderrooms, next_orderroom_pk>>
            ELSE IF order_room # NoPk
            THEN LET moved == [orderrooms EXCEPT ![order_room].room = room]
                     t == touch(rooms, moved, room)
                 IN /\ rooms' = t.rooms
                    /\ orderrooms' = t.orderrooms
                    /\ session' = [session EXCEPT ![b].room_mode = "join",
                                                  ![b].room_join = order_room]
                    /\ last' = ran("checkout_join", TRUE)
                    /\ UNCHANGED next_orderroom_pk
            ELSE /\ next_orderroom_pk <= MaxOrderRoomPk
                 /\ orderrooms' = With(orderrooms, next_orderroom_pk,
                        [order |-> None, cart_id |-> b, room |-> room, is_admin |-> FALSE])
                 /\ next_orderroom_pk' = next_orderroom_pk + 1
                 /\ session' = [session EXCEPT ![b].room_mode = "join",
                                               ![b].room_join = next_orderroom_pk]
                 /\ last' = ran("checkout_join", TRUE)
                 /\ UNCHANGED rooms
    /\ UNCHANGED <<config, next_room_pk, cart, orders, placed, alloc>>

\* RoomStep.post with room_mode = "create"
CheckoutCreate(b, d, n) ==
    /\ NotRunning
    /\ in_checkout(b)
    /\ has_applicable_positions(b)
    /\ LET current == IF session[b].room_create \in DOMAIN rooms
                      THEN session[b].room_create ELSE NoPk
       IN
       IF ~(d \in available_room_definitions(b) /\ clean_name_ok(n, current))
       THEN /\ session' = [session EXCEPT ![b].room_mode = "create"]
            /\ last' = ran("checkout_create", FALSE)
            /\ UNCHANGED <<rooms, orderrooms, next_room_pk, next_orderroom_pk>>
       ELSE LET pk == session[b].room_join
                del == IF pk # NoPk /\ pk \in DOMAIN orderrooms
                       THEN delete_orderroom(rooms, orderrooms, pk)
                       ELSE [rooms |-> rooms, orderrooms |-> orderrooms]
                existing == room_named(del.rooms, n)
                room == IF existing # NoPk THEN existing ELSE next_room_pk
                R1 == IF existing # NoPk
                      THEN [del.rooms EXCEPT ![existing].room_definition = d,
                                             ![existing].password = CreatePassword]
                      ELSE With(del.rooms, next_room_pk, NewRoom(d, n))
            IN /\ existing = NoPk => next_room_pk <= MaxRoomPk
               /\ next_orderroom_pk <= MaxOrderRoomPk
               /\ rooms' = R1
               /\ orderrooms' = With(del.orderrooms, next_orderroom_pk,
                        [order |-> None, cart_id |-> b, room |-> room, is_admin |-> TRUE])
               /\ next_room_pk' = IF existing # NoPk THEN next_room_pk ELSE next_room_pk + 1
               /\ next_orderroom_pk' = next_orderroom_pk + 1
               /\ session' = [session EXCEPT ![b] =
                        [room_mode |-> "create", room_join |-> next_orderroom_pk,
                         room_create |-> room]]
               /\ last' = ran("checkout_create", TRUE)
    /\ UNCHANGED <<config, cart, orders, placed, alloc>>

\* RoomStep.post with room_mode = "none".  With a recorded room_join the
\* lookup OrderRoom.objects.get(event=..., pk=pk) names a field OrderRoom does
\* not have: the request fails and nothing, the session included, is saved.
CheckoutNone(b) ==
    /\ NotRunning
    /\ in_checkout(b)
    /\ has_applicable_positions(b)
    /\ IF session[b].room_join # NoPk
       THEN /\ last' = ran("checkout_none", FALSE)
            /\ UNCHANGED session
       ELSE /\ session' = [session EXCEPT ![b].room_mode = "none"]
            /\ last' = ran("checkout_none", TRUE)
    /\ UNCHANGED <<config, rooms, orderrooms, next_room_pk, next_orderroom_pk,
                   cart, orders, placed, alloc>>

\* RoomStep.post with room_mode = "nochange"
CheckoutNoChange(b) ==
    /\ NotRunning
    /\ in_checkout(b)
    /\ has_applicable_positions(b)
    /\ session[b].room_mode = "absent"
    /\ session' = [session EXCEPT ![b].room_mode = "none"]
    /\ last' = ran("checkout_nochange", TRUE)
    /\ UNCHANGED <<config, rooms, orderrooms, next_room_pk, next_orderroom_pk,
                   cart, orders, placed, alloc>>

\* the cart positions of a session pass their expiry time
ExpireCart(b) ==
    /\ NotRunning
    /\ cart[b] = "valid"
    /\ cart' = [cart EXCEPT ![b] = "expired"]
    /\ last' = ran("expire_cart", TRUE)
    /\ UNCHANGED <<config, rooms, orderrooms, next_room_pk, next_orderroom_pk,
                   session, orders, placed, alloc>>

\* ------------------------------------------------------------------ signals.py
\* a match statement whose "create" case asks for one of the two only
mode_check_lenient(room_mode, room_create, room_join) ==
    CASE room_mode = "join" ->
            IF room_create # NoPk \/ room_join = NoPk THEN "mode_join" ELSE "nothing"
      [] room_mode = "create" ->
            IF room_create = NoPk /\ room_join = NoPk THEN "mode_create" ELSE "nothing"
      [] room_mode \in {"none", "absent"} ->
            IF room_create # NoPk \/ room_join # NoPk THEN "mode_none" ELSE "nothing"
      [] OTHER -> "mode_invalid"

\* the match statement of lines 276-288: the OrderError it raises, if any.
\* A pk is truthy, an absent entry (None) is not.
mode_check(room_mode, room_create, room_join) ==
    CASE room_mode = "join" ->
            IF room_create # NoPk \/ room_join = NoPk THEN "mode_join" ELSE "nothing"
      [] room_mode = "create" ->
            IF room_create = NoPk \/ room_join = NoPk THEN "mode_create" ELSE "nothing"
      [] room_mode \in {"none", "absent"} ->
            IF room_create # NoPk \/ room_join # NoPk THEN "mode_none" ELSE "nothing"
      [] OTHER -> "mode_invalid"

\* room_validate_order on the meta data taken from the cart session of b and
\* on b's cart positions: the OrderError it raises, or "nothing"
room_validate_order(b) ==
    LET room_create == session[b].room_create
        room_join == session[b].room_join
        room_mode == session[b].room_mode
    IN IF room_create \in DOMAIN rooms /\ ~Room_is_valid(rooms, orderrooms, room_create)
       THEN "invalid_room"
       ELSE IF room_join \in DOMAIN orderrooms /\ ~OrderRoom_is_valid(orderrooms[room_join])
       THEN "invalid_order_room"
       ELSE IF /\ room_join \in DOMAIN orderrooms
               /\ positions[b] \cap
                    DefItems[rooms[orderrooms[room_join].room].room_definition] = {}
       THEN "no_items"
       ELSE mode_check(room_mode, room_create, room_join)

\* the outcome of an attempt to place an order
confirmed(b, error) ==
    [op |-> "place_order", ok |-> error = "nothing", order |-> b, error |-> error,
     meta |-> session[b]]

\* a receiver that sets the order and leaves the cart id in place
placed_order_keeps_cart(M, b, meta) ==
    IF meta.room_mode \in {"create", "join"} /\ meta.room_join \in DOMAIN M
    THEN [M EXCEPT ![meta.room_join].order = b]
    ELSE M

\* the receiver of order_placed, applied to the OrderRoom table
placed_order(M, b, meta) ==
    IF meta.room_mode \in {"create", "join"} /\ meta.room_join \in DOMAIN M
    THEN [M EXCEPT ![meta.room_join].order = b, ![meta.room_join].cart_id = None]
    ELSE M

\* the buyer confirms the order: the room step is completed; when
\* validate_order raises nothing, the order is created as pending and
\* order_placed is sent
PlaceOrder(b) ==
    /\ NotRunning
    /\ cart[b] = "valid"
    /\ orders[b] = "absent"
    /\ has_applicable_positions(b) => session[b].room_mode # "absent"
    /\ last' = confirmed(b, room_validate_order(b))
    /\ IF room_validate_order(b) = "nothing"
       THEN /\ orders' = [orders EXCEPT ![b] = "n"]
            /\ cart' = [cart EXCEPT ![b] = "gone"]
            /\ placed' = Append(placed, b)
            /\ orderrooms' = placed_order(orderrooms, b, session[b])
            /\ session' = [session EXCEPT ![b] = NoSession]
       ELSE UNCHANGED <<orders, cart, placed, orderrooms, session>>
    /\ UNCHANGED <<config, rooms, next_room_pk, next_orderroom_pk, alloc>>

\* a pending (or expired) order is paid
PayOrder(b) ==
    /\ NotRunning
    /\ orders[b] \in {"n", "e"}
    /\ orders' = [orders EXCEPT ![b] = "p"]
    /\ last' = ran("pay_order", TRUE)
    /\ UNCHANGED <<config, rooms, orderrooms, next_room_pk, next_orderroom_pk,
                   cart, session, placed, alloc>>

\* a pending order passes its payment deadline
ExpireOrder(b) ==
    /\ NotRunning
    /\ orders[b] = "n"
    /\ orders' = [orders EXCEPT ![b] = "e"]
    /\ last' = ran("expire_order", TRUE)
    /\ UNCHANGED <<config, rooms, orderrooms, next_room_pk, next_orderroom_pk,
                   cart, session, placed, alloc>>

\* the order is canceled and the receiver of order_canceled runs
CancelOrder(b) ==
    /\ NotRunning
    /\ orders[b] \in {"n", "p"}
    /\ LET k == orderroom_of(orderrooms, b)
           del == IF k # NoPk THEN delete_orderroom(rooms, orderrooms, k)
                  ELSE [rooms |-> rooms, orderrooms |-> orderrooms]
       IN /\ rooms' = del.rooms
          /\ orderrooms' = del.orderrooms
    /\ orders' = [orders EXCEPT ![b] = "c"]
    /\ last' = removed("cancel_order", orderrooms, orderroom_of(orderrooms, b))
    /\ UNCHANGED <<config, next_room_pk, next_orderroom_pk, cart, session, placed, alloc>>

\* -------------------------------------------------- views.py: OrderRoomChange
\* OrderRoomChange.dispatch lets the request through
can_change_room(b) ==
    /\ orders[b] \in {"n", "p"}
    /\ has_applicable_positions(b)

\* OrderRoomChange.post_room_leave
OrderLeave(b) ==
    /\ NotRunning
    /\ can_change_room(b)
    /\ orderroom_of(orderrooms, b) # NoPk
    /\ LET del == delete_orderroom(rooms, orderrooms, orderroom_of(orderrooms, b))
       IN /\ rooms' = del.rooms
          /\ orderrooms' = del.orderrooms
    /\ last' = removed("order_leave", orderrooms, orderroom_of(orderrooms, b))
    /\ UNCHANGED <<config, next_room_pk, next_orderroom_pk, cart, session, orders,
                   placed, alloc>>

\* Order.delete() belongs to pretix: either the rows that reference the
\* order protect it and the call raises, or the order is deleted
order_delete_outcomes == {"protected", "deleted"}

\* OrderRoomChange.post_room_none.  For an order with a room the handler
\* calls self.order.delete().  When the call raises, the request fails and
\* is rolled back; when it goes through, the order is gone and the cascade
\* deletes its OrderRoom row, whose post_delete receiver touches the room.
OrderNone(b) ==
    /\ NotRunning
    /\ can_change_room(b)
    /\ IF ~has_orderroom(orderrooms, b)
       THEN /\ last' = asked("order_none", TRUE, b)
            /\ UNCHANGED <<rooms, orderrooms, orders, placed>>
       ELSE \E outcome \in order_delete_outcomes :
            IF outcome = "protected"
            THEN /\ last' = asked("order_none", FALSE, b)
                 /\ UNCHANGED <<rooms, orderrooms, orders, placed>>
            ELSE LET del == delete_orderroom(rooms, orderrooms, orderroom_of(orderrooms, b))
                 IN /\ rooms' = del.rooms
                    /\ orderrooms' = del.orderrooms
                    /\ orders' = [orders EXCEPT ![b] = "absent"]
                    /\ placed' = SelectSeq(placed, LAMBDA o : o # b)
                    /\ last' = asked("order_none", TRUE, b)
    /\ UNCHANGED <<config, next_room_pk, next_orderroom_pk, cart, session, alloc>>

\* OrderRoomChange.post_room_join
OrderJoin(b, n) ==
    /\ NotRunning
    /\ can_change_room(b)
    /\ IF \/ ~join_form_valid(n)
          \/ has_orderroom(orderrooms, b)
          \/ ~has_capacity(rooms, orderrooms, room_named(rooms, n), TRUE)
       THEN /\ last' = asked("order_join", FALSE, b)
            /\ UNCHANGED <<orderrooms, next_orderroom_pk>>
       ELSE /\ next_orderroom_pk <= MaxOrderRoomPk
            /\ orderrooms' = With(orderrooms, next_orderroom_pk,
                    [order |-> b, cart_id |-> None, room |-> room_named(rooms, n),
                     is_admin |-> FALSE])
            /\ next_orderroom_pk' = next_orderroom_pk + 1
            /\ last' = asked("order_join", TRUE, b)
    /\ UNCHANGED <<config, rooms, next_room_pk, cart, session, orders, placed, alloc>>

\* OrderRoomChange.post_room_create.  The form accepts the name of a room
\* without valid occupants, and Room.objects.create then violates the
\* unique (event, name) constraint: the request fails and is rolled back.
OrderCreate(b, d, n) ==
    /\ NotRunning
    /\ can_change_room(b)
    /\ d \in available_room_definitions(b)
    /\ clean_name_ok(n, NoPk)
    /\ IF has_orderroom(orderrooms, b) \/ room_named(rooms, n) # NoPk
       THEN /\ last' = asked("order_create", FALSE, b)
            /\ UNCHANGED <<rooms, orderrooms, next_room_pk, next_orderroom_pk>>
       ELSE /\ next_room_pk <= MaxRoomPk
            /\ next_orderroom_pk <= MaxOrderRoomPk
            /\ rooms' = With(rooms, next_room_pk, NewRoom(d, n))
            /\ orderrooms' = With(orderrooms, next_orderroom_pk,
                    [order |-> b, cart_id |-> None, room |-> next_room_pk,
                     is_admin |-> TRUE])
            /\ next_room_pk' = next_room_pk + 1
            /\ next_orderroom_pk' = next_orderroom_pk + 1
            /\ last' = asked("order_create", TRUE, b)
    /\ UNCHANGED <<config, cart, session, orders, placed, alloc>>

\* a check that lets every occupant edit the room
may_edit_any(M, k) == TRUE

\* line 277: the membership of the order is the room's administrator
may_edit(M, k) == M[k].is_admin

\* OrderRoomChange.post_room_change: the buyer of order b posts a new
\* password and, when the event lets hosts control random assignment, the
\* opt-out flag
OrderChange(b, password, optout) ==
    /\ NotRunning
    /\ can_change_room(b)
    /\ LET k == orderroom_of(orderrooms, b) IN
       IF ~has_orderroom(orderrooms, b) \/ ~may_edit(orderrooms, k)
       THEN /\ last' = asked("order_change", FALSE, b)
            /\ UNCHANGED rooms
       ELSE /\ rooms' = [rooms EXCEPT
                    ![orderrooms[k].room].password = password,
                    ![orderrooms[k].room].optout_random_extra =
                        IF allow_optout THEN optout ELSE @]
            /\ last' = asked("order_change", TRUE, b)
    /\ UNCHANGED <<config, orderrooms, next_room_pk, next_orderroom_pk, cart, session,
                   orders, placed, alloc>>

\* ------------------------------------------------ views.py: operator views
\* RoomAddOrder.form_valid: the order is put into the room whatever its
\* status, its items and the room's occupancy.  For an unknown order code
\* and for an order that has a room, the handler goes on to save the form's
\* instance, which has neither order nor cart_id: OrderRoom.save raises
\* ValueError and nothing is written.
RoomAddOrder(r, o) ==
    /\ NotRunning
    /\ r \in DOMAIN rooms
    /\ IF orders[o] = "absent" \/ has_orderroom(orderrooms, o)
       THEN /\ last' = asked("room_add_order", FALSE, o)
            /\ UNCHANGED <<orderrooms, next_orderroom_pk>>
       ELSE /\ next_orderroom_pk <= MaxOrderRoomPk
            /\ orderrooms' = With(orderrooms, next_orderroom_pk,
                    [order |-> o, cart_id |-> None, room |-> r, is_admin |-> FALSE])
            /\ next_orderroom_pk' = next_orderroom_pk + 1
            /\ last' = asked("room_add_order", TRUE, o)
    /\ UNCHANGED <<config, rooms, next_room_pk, cart, session, orders, placed, alloc>>

RECURSIVE delete_order_rows(_, _, _)
\* the loop of RoomDelete.delete over the order rows it read at its start:
\* every row is deleted and its post_delete receiver touches the room.  Once
\* a touch has deleted the room (and, by cascade, the rows still to come),
\* the receiver of the next row calls touch on the deleted Room instance,
\* whose pk is None: the call raises and the request fails.
delete_order_rows(R, M, todo) ==
    IF todo = <<>> THEN [rooms |-> R, orderrooms |-> M, raised |-> FALSE]
    ELSE IF Head(todo) \notin DOMAIN M
    THEN [rooms |-> R, orderrooms |-> M, raised |-> TRUE]
    ELSE LET del == delete_orderroom(R, M, Head(todo))
         IN delete_order_rows(del.rooms, del.orderrooms, Tail(todo))

\* the outcome of the operator's request to delete room r
room_deleted(r, ok) == [op |-> "room_delete", ok |-> ok, room |-> r]

\* RoomDelete.delete: the rows of the room that belong to an order are
\* deleted one by one, in the order of their pk; the room itself is deleted
\* only by a touch that finds no valid occupant.  An exception rolls the
\* request back.
RoomDelete(r) ==
    /\ NotRunning
    /\ r \in DOMAIN rooms
    /\ LET rows == {k \in DOMAIN orderrooms :
                        orderrooms[k].room = r /\ orderrooms[k].order # None}
           res == delete_order_rows(rooms, orderrooms,
                                    SeqOfSet(rows, [k \in rows |-> k]))
       IN /\ rooms' = IF res.raised THEN rooms ELSE res.rooms
          /\ orderrooms' = IF res.raised THEN orderrooms ELSE res.orderrooms
          /\ last' = room_deleted(r, ~res.raised)
    /\ UNCHANGED <<config, next_room_pk, next_orderroom_pk, cart, session, orders,
                   placed, alloc>>

\* RoomRemoveOrder.delete
RoomRemoveOrder(o) ==
    /\ NotRunning
    /\ orders[o] # "absent"
    /\ orderroom_of(orderrooms, o) # NoPk
    /\ LET del == delete_orderroom(rooms, orderrooms, orderroom_of(orderrooms, o))
       IN /\ rooms' = del.rooms
          /\ orderrooms' = del.orderrooms
    /\ last' = removed("room_remove_order", orderrooms, orderroom_of(orderrooms, o))
    /\ UNCHANGED <<config, next_room_pk, next_orderroom_pk, cart, session, orders,
                   placed, alloc>>

\* ControlRoomForm.__init__ reads self.event.room; the reverse accessor of
\* Room.event is named rooms, so building the form raises AttributeError.
control_form_constructs == FALSE

\* ControlRoomChange.post: the operator sets the room and the admin flag of
\* an order's OrderRoom row (a new row when the order has none)
ControlRoomChange(o, r, is_admin) ==
    /\ NotRunning
    /\ orders[o] # "absent"
    /\ r \in DOMAIN rooms
    /\ IF ~control_form_constructs
       THEN /\ last' = ran("control_room_change", FALSE)
            /\ UNCHANGED <<orderrooms, next_orderroom_pk>>
       ELSE LET k == orderroom_of(orderrooms, o) IN
            IF k # NoPk
            THEN /\ orderrooms' = [orderrooms EXCEPT ![k].room = r, ![k].is_admin = is_admin]
                 /\ last' = ran("control_room_change", TRUE)
                 /\ UNCHANGED next_orderroom_pk
            ELSE /\ next_orderroom_pk <= MaxOrderRoomPk
                 /\ orderrooms' = With(orderrooms, next_orderroom_pk,
                        [order |-> o, cart_id |-> None, room |-> r, is_admin |-> is_admin])
                 /\ next_orderroom_pk' = next_orderroom_pk + 1
                 /\ last' = ran("control_room_change", TRUE)
    /\ UNCHANGED <<config, rooms, next_room_pk, cart, session, orders, placed, alloc>>

\* ---------------------------------------------------- views.py: RandomizeView
Reverse(s) == [i \in 1..Len(s) |-> s[Len(s) + 1 - i]]

\* event.room_definitions.values("items"): every item of some definition
definition_items == UNION {DefItems[d] : d \in Defs}

\* a query without the orderroom__isnull filter
unassigned_orders_all(M) ==
    SelectSeq(Reverse(placed), LAMBDA o :
        orders[o] = "p" /\ positions[o] \cap definition_items # {})

\* the query of lines 136-137, in Order's default ordering (newest first)
unassigned_orders(M) ==
    SelectSeq(Reverse(placed), LAMBDA o :
        /\ orders[o] = "p"
        /\ orderroom_of(M, o) = NoPk
        /\ positions[o] \cap definition_items # {})

\* event.rooms.all() in Room's default ordering (by name)
rooms_by_name(R) == SeqOfSet(DOMAIN R, [r \in DOMAIN R |-> NameRank[R[r].name]])

\* the definitions an order's positions give access to (lines 94-95, 120-121)
order_definitions(o) == definitions_of(positions[o] \cap definition_items)

\* a scan that takes any room with capacity, whatever its definition
room_matches_any(R, r, defs) == TRUE

\* line 129 (and lines 103-105): the room belongs to one of the definitions
room_matches(R, r, defs) == R[r].room_definition \in defs

RECURSIVE scan_rooms(_, _, _, _, _, _)
\* the loops of lines 98-105 and 124-130 over a copy of the working list:
\* rooms without capacity are removed from the list, the first remaining
\* room of a wanted definition is returned
scan_rooms(R, M, todo, kept, defs, extra_capacity) ==
    IF todo = <<>> THEN [room |-> NoPk, list |-> kept]
    ELSE LET r == Head(todo) IN
         IF ~has_capacity(R, M, r, extra_capacity)
         THEN scan_rooms(R, M, Tail(todo), kept, defs, extra_capacity)
         ELSE IF room_matches(R, r, defs)
         THEN [room |-> r, list |-> kept \o todo]
         ELSE scan_rooms(R, M, Tail(todo), Append(kept, r), defs, extra_capacity)

\* lines 108-109: the first definition of the order, by name, that is available
first_available(R, M, defs) ==
    LET ok == {i \in 1..Len(DefSeq) : DefSeq[i] \in defs /\ is_available(R, M, DefSeq[i])}
    IN IF ok = {} THEN None ELSE DefSeq[Min(ok)]

\* a loop that forgets the orders it could not place
defer_dropped(tmp, order) == tmp

\* lines 144, 153, 164: the order is carried to the next pass
defer(tmp, order) == Append(tmp, order)

\* line 135 and line 156: the snapshots of rooms to fill
snapshot_normal(R, M) ==
    SelectSeq(rooms_by_name(R), LAMBDA r : has_capacity(R, M, r, FALSE))

snapshot_extra(R, M) ==
    SelectSeq(rooms_by_name(R), LAMBDA r :
        has_capacity(R, M, r,
            ~(R[r].disable_random_extra \/ (allow_optout /\ R[r].optout_random_extra))))

\* the end of a for loop: an empty list of orders moves on to the next pass
next_pass(a, R, M) ==
    LET a1 == IF a.pc = "pass1" /\ a.unassigned = <<>>
              THEN [a EXCEPT !.pc = "pass2", !.unassigned = a.tmp, !.tmp = <<>>]
              ELSE a
        a2 == IF a1.pc = "pass2" /\ a1.unassigned = <<>>
              THEN [a1 EXCEPT !.pc = "pass3", !.unassigned = a1.tmp, !.tmp = <<>>,
                              !.existing_rooms = snapshot_extra(R, M)]
              ELSE a1
    IN IF a2.pc = "pass3" /\ a2.unassigned = <<>>
       THEN [a2 EXCEPT !.pc = "end", !.unassigned = a2.tmp, !.tmp = <<>>]
       ELSE a2

\* RandomizeView.form_valid enters transaction.atomic and randomize_rooms
\* runs up to its first loop.  alloc.turn remembers the tables each order
\* found at its iteration of the first loop.
RandomizeStart(force) ==
    /\ NotRunning
    /\ alloc' = next_pass(
            [pc |-> "pass1", force |-> force,
             created_rooms |-> <<>>,
             existing_rooms |-> snapshot_normal(rooms, orderrooms),
             unassigned |-> unassigned_orders(orderrooms),
             tmp |-> <<>>,
             turn |-> <<>>,
             saved_rooms |-> rooms, saved_orderrooms |-> orderrooms],
            rooms, orderrooms)
    /\ last' = [op |-> "randomize_start", ok |-> TRUE]
    /\ UNCHANGED <<config, rooms, orderrooms, next_room_pk, next_orderroom_pk,
                   cart, session, orders, placed>>

joined(pass, order, room, created) ==
    [op |-> "randomize_join", ok |-> TRUE, pass |-> pass, order |-> order,
     room |-> room, created |-> created]

deferred(pass, order) ==
    [op |-> "randomize_defer", ok |-> TRUE, pass |-> pass, order |-> order]

\* a row that never carries the admin flag
new_orderroom_plain(order, room, is_admin) ==
    [order |-> order, cart_id |-> None, room |-> room, is_admin |-> FALSE]

\* lines 142, 151, 162: OrderRoom.objects.create(order=, room=, is_admin=)
new_orderroom(order, room, is_admin) ==
    [order |-> order, cart_id |-> None, room |-> room, is_admin |-> is_admin]

\* one iteration of the loop of lines 139-144
RandomizePass1 ==
    /\ alloc.pc = "pass1"
    /\ LET order == Head(alloc.unassigned)
           defs == order_definitions(order)
           found == scan_rooms(rooms, orderrooms, alloc.created_rooms, <<>>, defs, FALSE)
           definition == first_available(rooms, orderrooms, defs)
           rest == [alloc EXCEPT !.unassigned = Tail(alloc.unassigned),
                                 !.created_rooms = found.list,
                                 !.turn = With(alloc.turn, order,
                                               [rooms |-> rooms, orderrooms |-> orderrooms])]
       IN
       IF found.room # NoPk
       THEN /\ next_orderroom_pk <= MaxOrderRoomPk
            /\ orderrooms' = With(orderrooms, next_orderroom_pk,
                                  new_orderroom(order, found.room, FALSE))
            /\ next_orderroom_pk' = next_orderroom_pk + 1
            /\ alloc' = next_pass(rest, rooms, orderrooms')
            /\ last' = joined(1, order, found.room, FALSE)
            /\ UNCHANGED <<rooms, next_room_pk>>
       ELSE IF definition # None
       THEN /\ next_room_pk <= MaxRoomPk
            /\ next_orderroom_pk <= MaxOrderRoomPk
            /\ \E n \in RoomNames :
                /\ room_named(rooms, n) = NoPk
                /\ rooms' = With(rooms, next_room_pk, NewRoom(definition, n))
            /\ orderrooms' = With(orderrooms, next_orderroom_pk,
                                  new_orderroom(order, next_room_pk, TRUE))
            /\ next_room_pk' = next_room_pk + 1
            /\ next_orderroom_pk' = next_orderroom_pk + 1
            /\ alloc' = next_pass(
                    [rest EXCEPT !.created_rooms = Append(found.list, next_room_pk)],
                    rooms', orderrooms')
            /\ last' = joined(1, order, next_room_pk, TRUE)
       ELSE /\ alloc' = next_pass([rest EXCEPT !.tmp = defer(alloc.tmp, order)],
                                  rooms, orderrooms)
            /\ last' = deferred(1, order)
            /\ UNCHANGED <<rooms, orderrooms, next_room_pk, next_orderroom_pk>>
    /\ UNCHANGED <<config, cart, session, orders, placed>>

\* one iteration of the loop of lines 148-153 (pass 2) or 159-164 (pass 3)
RandomizeFill(pc, pass, extra_capacity) ==
    /\ alloc.pc = pc
    /\ LET order == Head(alloc.unassigned)
           found == scan_rooms(rooms, orderrooms, alloc.existing_rooms, <<>>,
                               order_definitions(order), extra_capacity)
           rest == [alloc EXCEPT !.unassigned = Tail(alloc.unassigned),
                                 !.existing_rooms = found.list]
       IN
       IF found.room # NoPk
       THEN /\ next_orderroom_pk <= MaxOrderRoomPk
            /\ orderrooms' = With(orderrooms, next_orderroom_pk,
                                  new_orderroom(order, found.room, FALSE))
            /\ next_orderroom_pk' = next_orderroom_pk + 1
            /\ alloc' = next_pass(rest, rooms, orderrooms')
            /\ last' = joined(pass, order, found.room, FALSE)
       ELSE /\ alloc' = next_pass([rest EXCEPT !.tmp = defer(alloc.tmp, order)],
                                  rooms, orderrooms)
            /\ last' = deferred(pass, order)
            /\ UNCHANGED <<orderrooms, next_orderroom_pk>>
    /\ UNCHANGED <<config, rooms, next_room_pk, cart, session, orders, placed>>

RandomizePass2 == RandomizeFill("pass2", 2, FALSE)

RandomizePass3 == RandomizeFill("pass3", 3, TRUE)

\* --- randomize_rooms as one function of the tables it starts from; the
\* uuid a created room gets as its name is the first name that is free,
\* primary keys are the next free ones
Max(S) == CHOOSE x \in S : \A y \in S : y <= x

next_pk(S) == IF S = {} THEN 1 ELSE Max(S) + 1

first_free_name(R) ==
    CHOOSE n \in RoomNames :
        /\ room_named(R, n) = NoPk
        /\ \A m \in RoomNames : room_named(R, m) = NoPk => NameRank[n] <= NameRank[m]

RECURSIVE create_or_fill_loop(_, _, _, _, _)
\* the loop of lines 139-144 with create_or_fill_rooms
create_or_fill_loop(R, M, unassigned, created_rooms, tmp) ==
    IF unassigned = <<>> THEN [rooms |-> R, orderrooms |-> M, tmp |-> tmp]
    ELSE LET order == Head(unassigned)
             defs == order_definitions(order)
             found == scan_rooms(R, M, created_rooms, <<>>, defs, FALSE)
             definition == first_available(R, M, defs)
             room_pk == next_pk(DOMAIN R)
             pk == next_pk(DOMAIN M)
         IN IF found.room # NoPk
            THEN create_or_fill_loop(R, With(M, pk, new_orderroom(order, found.room, FALSE)),
                                     Tail(unassigned), found.list, tmp)
            ELSE IF definition # None
            THEN create_or_fill_loop(
                    With(R, room_pk, NewRoom(definition, first_free_name(R))),
                    With(M, pk, new_orderroom(order, room_pk, TRUE)),
                    Tail(unassigned), Append(found.list, room_pk), tmp)
            ELSE create_or_fill_loop(R, M, Tail(unassigned), found.list, defer(tmp, order))

RECURSIVE fill_existing_loop(_, _, _, _, _, _)
\* the loops of lines 148-153 and 159-164 with fill_existing_rooms
fill_existing_loop(R, M, unassigned, existing_rooms, tmp, extra_capacity) ==
    IF unassigned = <<>> THEN [rooms |-> R, orderrooms |-> M, tmp |-> tmp]
    ELSE LET order == Head(unassigned)
             found == scan_rooms(R, M, existing_rooms, <<>>, order_definitions(order),
                                 extra_capacity)
             pk == next_pk(DOMAIN M)
         IN IF found.room # NoPk
            THEN fill_existing_loop(R, With(M, pk, new_orderroom(order, found.room, FALSE)),
                                    Tail(unassigned), found.list, tmp, extra_capacity)
            ELSE fill_existing_loop(R, M, Tail(unassigned), found.list, defer(tmp, order),
                                    extra_capacity)

\* lines 134-165: the tables and the list of unplaced orders after pass 3
randomize_rooms(R, M) ==
    LET p1 == create_or_fill_loop(R, M, unassigned_orders(M), <<>>, <<>>)
        p2 == fill_existing_loop(p1.rooms, p1.orderrooms, p1.tmp, snapshot_normal(R, M),
                                 <<>>, FALSE)
    IN fill_existing_loop(p2.rooms, p2.orderrooms, p2.tmp,
                          snapshot_extra(p2.rooms, p2.orderrooms), <<>>, TRUE)

\* line 170: the message 'Failed to find a room for:\n %(joined)' is applied
\* to a dict with the % operator.  %(joined) has no conversion type, so the
\* operator raises ValueError("incomplete format") instead of a string.
failure_message_formats == FALSE

\* lines 166-172: what randomize_rooms raises, if anything
randomize_raises(unassigned, force) ==
    IF Len(unassigned) = 0 THEN "nothing"
    ELSE IF ~failure_message_formats THEN "ValueError"
    ELSE IF ~force THEN "RandomRoomAssignmentError"
    ELSE "nothing"

\* a block that commits whatever happened inside it
atomic_exit_commits(raised, saved, current) == current

\* transaction.atomic (line 68): an exception leaving the block rolls the
\* tables back to their state at its entry
atomic_exit(raised, saved, current) == IF raised # "nothing" THEN saved ELSE current

\* the orders named in the error message shown to the operator
reported_orders(unassigned) ==
    IF Len(unassigned) # 0 /\ failure_message_formats THEN Range(unassigned) ELSE {}

\* lines 70-75: how the request ends
form_valid_outcome(raised) ==
    IF raised = "nothing" THEN "assigned"
    ELSE IF raised = "RandomRoomAssignmentError" THEN "partial_assignment"
    ELSE "unhandled"

\* the code after the three loops, the exit of the atomic block and the
\* handlers of form_valid
RandomizeEnd ==
    /\ alloc.pc = "end"
    /\ LET raised == randomize_raises(alloc.unassigned, alloc.force) IN
       /\ rooms' = atomic_exit(raised, alloc.saved_rooms, rooms)
       /\ orderrooms' = atomic_exit(raised, alloc.saved_orderrooms, orderrooms)
       /\ last' = [op |-> "randomize", ok |-> raised = "nothing",
                   force |-> alloc.force,
                   outcome |-> form_valid_outcome(raised),
                   failed |-> Range(alloc.unassigned),
                   reported |-> reported_orders(alloc.unassigned),
                   joined |-> {orderrooms[k].order :
                                 k \in DOMAIN orderrooms \ DOMAIN alloc.saved_orderrooms},
                   created |-> DOMAIN rooms # DOMAIN alloc.saved_rooms]
    /\ alloc' = Idle
    /\ UNCHANGED <<config, next_room_pk, next_orderroom_pk, cart, session, orders, placed>>

\* ------------------------------------------- requests that run concurrently
\* Every handler runs in transaction.atomic.  Under snapshot isolation a
\* transaction reads the tables as they were when it began, and its writes
\* reach the tables when it commits; the storage aborts it when a row it
\* updated or deleted was changed by a transaction that committed in
\* between, and when a unique or foreign key constraint fails.  The
\* handlers take no lock (no select_for_update) and do not retry.

\* the result of a handler run against tables R and M
refused(R, M) == [ok |-> FALSE, rooms |-> R, orderrooms |-> M]

accepted(R, M) == [ok |-> TRUE, rooms |-> R, orderrooms |-> M]

\* OrderRoomChange.post_room_join against R and M; pk is the next value of
\* the OrderRoom sequence
order_join_on(R, M, b, n, pk) ==
    LET room == room_named(R, n) IN
    IF \/ room = NoPk
       \/ ~Room_is_valid(R, M, room)
       \/ has_orderroom(M, b)
       \/ ~has_capacity(R, M, room, TRUE)
    THEN refused(R, M)
    ELSE accepted(R, With(M, pk, [order |-> b, cart_id |-> None, room |-> room,
                                  is_admin |-> FALSE]))

\* OrderRoomChange.post_room_create against R and M.  A name that a room
\* already has is refused by the form, or by the unique constraint when the
\* room has no valid occupant: nothing is written either way.
order_create_on(R, M, b, d, n, room_pk, pk) ==
    IF \/ d \notin definitions_of(positions[b])
       \/ ~is_available(R, M, d)
       \/ room_named(R, n) # NoPk
       \/ has_orderroom(M, b)
    THEN refused(R, M)
    ELSE accepted(With(R, room_pk, NewRoom(d, n)),
                  With(M, pk, [order |-> b, cart_id |-> None, room |-> room_pk,
                               is_admin |-> TRUE]))

\* OrderRoomChange.post_room_leave against R and M
order_leave_on(R, M, b) ==
    IF ~has_orderroom(M, b) THEN refused(R, M)
    ELSE LET del == delete_orderroom(R, M, orderroom_of(M, b))
         IN accepted(del.rooms, del.orderrooms)

\* the requests buyers may send for their orders
Requests ==
    [op : {"order_join"}, order : Buyers, name : RoomNames, definition : {None}]
    \cup [op : {"order_create"}, order : Buyers, name : RoomNames, definition : Defs]
    \cup [op : {"order_leave"}, order : Buyers, name : {None}, definition : {None}]

\* OrderRoomChange.dispatch
request_allowed(req) == can_change_room(req.order)

run_request(req, R, M, room_pk, pk) ==
    CASE req.op = "order_join" -> order_join_on(R, M, req.order, req.name, pk)
      [] req.op = "order_create" ->
            order_create_on(R, M, req.order, req.definition, req.name, room_pk, pk)
      [] OTHER -> order_leave_on(R, M, req.order)

\* the transaction of request req begins: it sees the tables as they are
\* now and the handler runs against them; the sequences hand out the
\* primary keys of the rows it inserts
TxnBegin(t, req) ==
    /\ NotRunning
    /\ txn[t].pc = "idle"
    /\ t = "t2" => txn["t1"].pc # "idle"
    /\ request_allowed(req)
    /\ LET res == run_request(req, rooms, orderrooms, next_room_pk, next_orderroom_pk) IN
       /\ DOMAIN res.rooms # DOMAIN rooms => next_room_pk <= MaxRoomPk
       /\ next_orderroom_pk \in DOMAIN res.orderrooms => next_orderroom_pk <= MaxOrderRoomPk
       /\ txn' = [txn EXCEPT ![t] =
                [pc |-> "open", req |-> req, ok |-> res.ok,
                 snap_rooms |-> rooms, snap_orderrooms |-> orderrooms,
                 rooms |-> res.rooms, orderrooms |-> res.orderrooms]]
       /\ next_room_pk' = IF next_room_pk \in DOMAIN res.rooms
                          THEN next_room_pk + 1 ELSE next_room_pk
       /\ next_orderroom_pk' = IF next_orderroom_pk \in DOMAIN res.orderrooms
                               THEN next_orderroom_pk + 1 ELSE next_orderroom_pk
    /\ UNCHANGED <<definitions, positions, allow_optout, rooms, orderrooms, cart, session,
                   orders, placed, alloc, last>>

\* the rows of table `now` after the writes that lead from `snap` to `new`
apply_writes(now, snap, new) ==
    [k \in (DOMAIN now \ (DOMAIN snap \ DOMAIN new)) \cup (DOMAIN new \ DOMAIN snap) |->
        IF k \in DOMAIN new /\ (k \notin DOMAIN snap \/ new[k] # snap[k])
        THEN new[k] ELSE now[k]]

\* a row that the transaction updated or deleted is no longer what the
\* transaction saw
write_conflict(now, snap, new) ==
    \E k \in DOMAIN snap :
        /\ k \notin DOMAIN new \/ new[k] # snap[k]
        /\ k \notin DOMAIN now \/ now[k] # snap[k]

\* unique (event, name) of Room, the one-to-one relation of OrderRoom.order
\* and the foreign key OrderRoom.room, checked on the tables R and M
constraints_hold(R, M) ==
    /\ \A r1, r2 \in DOMAIN R : R[r1].name = R[r2].name => r1 = r2
    /\ \A k1, k2 \in DOMAIN M :
            (M[k1].order # None /\ M[k1].order = M[k2].order) => k1 = k2
    /\ \A k \in DOMAIN M : M[k].room \in DOMAIN R

\* the storage lets the transaction commit
commit_allowed(t) ==
    /\ ~write_conflict(rooms, txn[t].snap_rooms, txn[t].rooms)
    /\ ~write_conflict(orderrooms, txn[t].snap_orderrooms, txn[t].orderrooms)
    /\ constraints_hold(apply_writes(rooms, txn[t].snap_rooms, txn[t].rooms),
                        apply_writes(orderrooms, txn[t].snap_orderrooms, txn[t].orderrooms))

\* the room a request was about, as the transaction saw it: the room joined
\* or left, or the room created
request_room(t) ==
    LET R == txn[t].snap_rooms
        M == txn[t].snap_orderrooms
        req == txn[t].req
    IN CASE req.op = "order_join" -> room_named(R, req.name)
         [] req.op = "order_create" -> room_named(txn[t].rooms, req.name)
         [] OTHER -> IF has_orderroom(M, req.order)
                     THEN M[orderroom_of(M, req.order)].room ELSE NoPk

finished(t, outcome) ==
    [pc |-> "done", req |-> txn[t].req, room |-> request_room(t), outcome |-> outcome]

\* the transaction ends: a refused request wrote nothing; an accepted one
\* commits its writes or is aborted by the storage
TxnCommit(t) ==
    /\ txn[t].pc = "open"
    /\ IF ~txn[t].ok
       THEN /\ txn' = [txn EXCEPT ![t] = finished(t, "refused")]
            /\ UNCHANGED <<rooms, orderrooms>>
       ELSE IF ~commit_allowed(t)
       THEN /\ txn' = [txn EXCEPT ![t] = finished(t, "aborted")]
            /\ UNCHANGED <<rooms, orderrooms>>
       ELSE /\ txn' = [txn EXCEPT ![t] = finished(t, "committed")]
            /\ rooms' = apply_writes(rooms, txn[t].snap_rooms, txn[t].rooms)
            /\ orderrooms' = apply_writes(orderrooms, txn[t].snap_orderrooms,
                                          txn[t].orderrooms)
    /\ UNCHANGED <<definitions, positions, allow_optout, next_room_pk, next_orderroom_pk,
                   cart, session, orders, placed, alloc, last>>

Next ==
    \/ \E b \in Buyers, n \in RoomNames : CheckoutJoin(b, n)
    \/ \E b \in Buyers, d \in Defs, n \in RoomNames : CheckoutCreate(b, d, n)
    \/ \E b \in Buyers : CheckoutNone(b)
    \/ \E b \in Buyers : CheckoutNoChange(b)
    \/ \E b \in Buyers : ExpireCart(b)
    \/ \E b \in Buyers : PlaceOrder(b)
    \/ \E b \in Buyers : PayOrder(b)
    \/ \E b \in Buyers : ExpireOrder(b)
    \/ \E b \in Buyers : CancelOrder(b)
    \/ \E b \in Buyers : OrderLeave(b)
    \/ \E b \in Buyers : OrderNone(b)
    \/ \E b \in Buyers, n \in RoomNames : OrderJoin(b, n)
    \/ \E b \in Buyers, d \in Defs, n \in RoomNames : OrderCreate(b, d, n)
    \/ \E b \in Buyers, password \in Passwords, optout \in BOOLEAN :
            OrderChange(b, password, optout)
    \/ \E r \in 1..MaxRoomPk, o \in Buyers : RoomAddOrder(r, o)
    \/ \E o \in Buyers : RoomRemoveOrder(o)
    \/ \E r \in 1..MaxRoomPk : RoomDelete(r)
    \/ \E r \in 1..MaxRoomPk : Touch(r)
    \/ \E o \in Buyers, r \in 1..MaxRoomPk, is_admin \in BOOLEAN :
            ControlRoomChange(o, r, is_admin)
    \/ \E force \in BOOLEAN : RandomizeStart(force)
    \/ RandomizePass1
    \/ RandomizePass2
    \/ RandomizePass3
    \/ RandomizeEnd
    \/ \E t \in Txns, req \in Requests : TxnBegin(t, req)
    \/ \E t \in Txns : TxnCommit(t)

Spec == Init /\ [][Next]_vars

TypeOK ==
    /\ DOMAIN rooms \subseteq 1..MaxRoomPk
    /\ DOMAIN orderrooms \subseteq 1..MaxOrderRoomPk
    /\ \A k \in DOMAIN orderrooms : orderrooms[k].room \in DOMAIN rooms

\* ------------------------------------------- the randomizer on its own
\* The states in which the operator may press "randomize": every buyer is a
\* paid or pending order, or a cart (live or expired) that sits in a room;
\* rooms were created by their first occupant, who is their administrator,
\* and filled by joins and by the operator; the limits of section 8 hold.
Situations == {"paid", "pending", "cart", "expired"}

\* the OrderRoom row of occupant b: rows were inserted in buyer order
input_pk(mem, b) == Cardinality({c \in Buyers : mem[c] # NoPk /\ BuyerRank[c] <= BuyerRank[b]})

input_orderrooms(sit, mem) ==
    LET occupants == {b \in Buyers : mem[b] # NoPk}
        creator(r) == CHOOSE b \in occupants :
            mem[b] = r /\ \A c \in occupants : mem[c] = r => BuyerRank[b] <= BuyerRank[c]
    IN [k \in 1..Cardinality(occupants) |->
            LET b == CHOOSE c \in occupants : input_pk(mem, c) = k IN
            [order |-> IF sit[b] \in {"paid", "pending"} THEN b ELSE None,
             cart_id |-> IF sit[b] \in {"cart", "expired"} THEN b ELSE None,
             room |-> mem[b],
             is_admin |-> b = creator(mem[b])]]

within_limits ==
    /\ \A r \in DOMAIN rooms :
        Cardinality(get_valid_room_orders(rooms, orderrooms, r))
            <= definitions[rooms[r].room_definition].capacity
               + definitions[rooms[r].room_definition].extra_capacity
    /\ \A d \in Defs : get_valid_room_count(rooms, orderrooms, d) <= definitions[d].max_rooms

\* the values of the two flags the operator (RoomForm) or the room's
\* administrator (post_room_change) may have given a room
NoFlags == [disable_random_extra |-> FALSE, optout_random_extra |-> FALSE]

FlagValues ==
    {[disable_random_extra |-> x, optout_random_extra |-> y] : x, y \in BOOLEAN}

randomize_inputs(values, assignments, situations, flags, optouts) ==
    /\ definitions \in {[d \in Defs |-> IF d = "d1" THEN v ELSE SecondDefinition] :
                            v \in values}
    /\ positions \in assignments
    /\ allow_optout \in optouts
    /\ \E k \in 0..MaxInputRooms :
       \E rd \in [1..k -> Defs], rn \in [1..k -> RoomNames], rf \in [1..k -> flags] :
       \E sit \in [Buyers -> situations], mem \in [Buyers -> 0..k] :
        /\ \A r1, r2 \in 1..k : rn[r1] = rn[r2] => r1 = r2
        /\ \A r \in 1..k : \E b \in Buyers : mem[b] = r
        /\ \A b \in Buyers :
            \* a cart reaches the room step only with an item of some definition
            /\ sit[b] \in {"cart", "expired"} =>
                    mem[b] # NoPk /\ definitions_of(positions[b]) # {}
            /\ sit[b] = "pending" => mem[b] = NoPk
        \* the creator held an item of the room's definition
        /\ \A r \in 1..k : \A b \in Buyers :
            (mem[b] = r /\ \A c \in Buyers : mem[c] = r => BuyerRank[b] <= BuyerRank[c])
                => positions[b] \cap DefItems[rd[r]] # {}
        \* the carts that joined after the creator found has_capacity true;
        \* orders are put into a room by the operator without any check
        /\ \A r \in 1..k :
            Cardinality({b \in Buyers :
                /\ mem[b] = r
                /\ sit[b] \in {"cart", "expired"}
                /\ \E c \in Buyers : mem[c] = r /\ BuyerRank[c] < BuyerRank[b]})
                < definitions[rd[r]].max_rooms
        /\ rooms = [r \in 1..k |->
                        [NewRoom(rd[r], rn[r]) EXCEPT
                            !.disable_random_extra = rf[r].disable_random_extra,
                            !.optout_random_extra = rf[r].optout_random_extra]]
        /\ orderrooms = input_orderrooms(sit, mem)
        /\ next_room_pk = k + 1
        /\ next_orderroom_pk = Cardinality({b \in Buyers : mem[b] # NoPk}) + 1
        /\ cart = [b \in Buyers |-> IF sit[b] = "cart" THEN "valid"
                                    ELSE IF sit[b] = "expired" THEN "expired" ELSE "gone"]
        /\ orders = [b \in Buyers |-> IF sit[b] = "paid" THEN "p"
                                      ELSE IF sit[b] = "pending" THEN "n" ELSE "absent"]
        /\ placed = SelectSeq(<<"b1", "b2", "b3">>,
                              LAMBDA b : sit[b] \in {"paid", "pending"})
    /\ session = [b \in Buyers |-> NoSession]
    /\ alloc = Idle
    /\ last = [op |-> "init"]
    /\ txn = NoTxns
    /\ within_limits

RandomizeInit ==
    randomize_inputs(DefinitionValues, ItemAssignments, Situations, {NoFlags}, {FALSE})

RandomizeNext ==
    \/ \E force \in BOOLEAN : RandomizeStart(force)
    \/ RandomizePass1
    \/ RandomizePass2
    \/ RandomizePass3
    \/ RandomizeEnd

RandomizeSpec == RandomizeInit /\ [][RandomizeNext]_vars

\* the randomizer over rooms whose flags were set, with the event's
\* host-control setting on or off
OptoutDefinitionValues == {v \in DefinitionValues : v.capacity + v.extra_capacity = 2}

OptoutSituations == {"paid", "cart"}

OptoutAssignments == {a \in ItemAssignments : a["b3"] = {"i1", "i2"}}

OptoutInit ==
    randomize_inputs(OptoutDefinitionValues, OptoutAssignments, OptoutSituations,
                     FlagValues, BOOLEAN)

OptoutSpec == OptoutInit /\ [][RandomizeNext]_vars

\* -------------------------------------------- confirmed orders on their own
\* The three buyers have placed their orders without taking a room (room
\* step answered "none"); the orders are pending and stay unpaid.  Buyers
\* and the operator then act on the orders.
OrderDefinitionValues == {v \in DefinitionValues : v.extra_capacity = 1}

OrderInit ==
    /\ definitions \in {[d \in Defs |-> IF d = "d1" THEN v ELSE SecondDefinition] :
                            v \in OrderDefinitionValues}
    /\ positions \in OptoutAssignments
    /\ allow_optout = FALSE
    /\ rooms = <<>>
    /\ orderrooms = <<>>
    /\ next_room_pk = 1
    /\ next_orderroom_pk = 1
    /\ cart = [b \in Buyers |-> "gone"]
    /\ session = [b \in Buyers |-> NoSession]
    /\ orders = [b \in Buyers |-> "n"]
    /\ placed = <<"b1", "b2", "b3">>
    /\ alloc = Idle
    /\ last = [op |-> "init"]
    /\ txn = NoTxns

OrderNext ==
    \/ \E b \in Buyers : ExpireOrder(b)
    \/ \E b \in Buyers : CancelOrder(b)
    \/ \E b \in Buyers : OrderLeave(b)
    \/ \E b \in Buyers, n \in RoomNames : OrderJoin(b, n)
    \/ \E b \in Buyers, d \in Defs, n \in RoomNames : OrderCreate(b, d, n)
    \/ \E r \in 1..MaxRoomPk, o \in Buyers : RoomAddOrder(r, o)
    \/ \E o \in Buyers : RoomRemoveOrder(o)

OrderSpec == OrderInit /\ [][OrderNext]_vars

\* ------------------------------------------------- checkout on its own
\* Buyers b1 and b3 go through the room step of checkout, any number of
\* times, let their carts expire or place their orders; the operator edits
\* the room of a placed order.  b2 never shows up.
CheckoutBuyers == {"b1", "b3"}

CheckoutInit ==
    /\ definitions \in {[d \in Defs |-> IF d = "d1" THEN v ELSE SecondDefinition] :
                            v \in OrderDefinitionValues}
    /\ positions \in OptoutAssignments
    /\ allow_optout = FALSE
    /\ rooms = <<>>
    /\ orderrooms = <<>>
    /\ next_room_pk = 1
    /\ next_orderroom_pk = 1
    /\ cart = [b \in Buyers |-> IF b \in CheckoutBuyers THEN "valid" ELSE "gone"]
    /\ session = [b \in Buyers |-> NoSession]
    /\ orders = [b \in Buyers |-> "absent"]
    /\ placed = <<>>
    /\ alloc = Idle
    /\ last = [op |-> "init"]
    /\ txn = NoTxns

CheckoutNext ==
    \/ \E b \in CheckoutBuyers, n \in RoomNames : CheckoutJoin(b, n)
    \/ \E b \in CheckoutBuyers, d \in Defs, n \in RoomNames : CheckoutCreate(b, d, n)
    \/ \E b \in CheckoutBuyers : CheckoutNone(b)
    \/ \E b \in CheckoutBuyers : CheckoutNoChange(b)
    \/ \E b \in CheckoutBuyers : ExpireCart(b)
    \/ \E b \in CheckoutBuyers : PlaceOrder(b)
    \/ \E o \in CheckoutBuyers, r \in 1..MaxRoomPk, is_admin \in BOOLEAN :
            ControlRoomChange(o, r, is_admin)

CheckoutSpec == CheckoutInit /\ [][CheckoutNext]_vars

\* ------------------------------------------- order validation on its own
\* room_validate_order as a function of the meta data of the confirming
\* cart and of the rooms and memberships it finds: a cart (b1 or b3)
\* confirms with any room_mode, room_join and room_create in its session,
\* next to rooms hosted by b2 and by the remaining buyer.
Modes == {"join", "create", "none", "absent", "other"}

HostSituations == {"cart", "expired", "order", "canceled"}

MaxMetaPk == 4      \* largest room_join / room_create value of the session

ValidateInit ==
    /\ definitions \in {[d \in Defs |-> IF d = "d1" THEN v ELSE SecondDefinition] :
                            v \in OrderDefinitionValues}
    /\ positions \in ItemAssignments
    /\ allow_optout = FALSE
    /\ \E c \in {"b1", "b3"}, k \in 0..2, rd \in [1..2 -> Defs], joined_room \in 0..2,
          hostsit \in HostSituations, meta \in [room_mode : Modes,
                                                room_join : 0..MaxMetaPk,
                                                room_create : 0..MaxMetaPk] :
        LET other == IF c = "b1" THEN "b3" ELSE "b1"
            host == [r \in 1..2 |-> IF r = 1 THEN "b2" ELSE other]
            hostrow(r) ==
                IF r = 1 /\ hostsit \in {"cart", "expired"}
                THEN [order |-> None, cart_id |-> host[r], room |-> r, is_admin |-> TRUE]
                ELSE [order |-> host[r], cart_id |-> None, room |-> r, is_admin |-> TRUE]
            ownrow == [order |-> None, cart_id |-> c, room |-> joined_room,
                       is_admin |-> FALSE]
        IN
        /\ joined_room <= k
        /\ \A r \in 1..k : positions[host[r]] \cap DefItems[rd[r]] # {}
        /\ rooms = [r \in 1..k |-> NewRoom(rd[r], IF r = 1 THEN "n1" ELSE "n2")]
        /\ orderrooms = [r \in 1..k |-> hostrow(r)]
                            \o (IF joined_room # NoPk THEN <<ownrow>> ELSE <<>>)
        /\ next_room_pk = k + 1
        /\ next_orderroom_pk = k + (IF joined_room # NoPk THEN 1 ELSE 0) + 1
        /\ cart = [b \in Buyers |->
                    IF b = c THEN "valid"
                    ELSE IF b = "b2" /\ k >= 1 /\ hostsit = "cart" THEN "valid"
                    ELSE IF b = "b2" /\ k >= 1 /\ hostsit = "expired" THEN "expired"
                    ELSE "gone"]
        /\ orders = [b \in Buyers |->
                    IF b = "b2" /\ k >= 1 /\ hostsit = "order" THEN "n"
                    ELSE IF b = "b2" /\ k >= 1 /\ hostsit = "canceled" THEN "c"
                    ELSE IF b = other /\ k = 2 THEN "n"
                    ELSE "absent"]
        /\ placed = SelectSeq(<<"b1", "b2", "b3">>, LAMBDA b : orders[b] # "absent")
        /\ session = [b \in Buyers |-> IF b = c THEN meta ELSE NoSession]
    /\ alloc = Idle
    /\ last = [op |-> "init"]
    /\ txn = NoTxns

ValidateNext == \E b \in Buyers : PlaceOrder(b)

ValidateSpec == ValidateInit /\ [][ValidateNext]_vars

\* ------------------------------------- holds that lapse, then a request
\* Rooms with carts and orders in them, as the operator and the buyers may
\* have left them; the carts and pending orders of b1 and b2 then pass their
\* deadlines and b3 asks to join or to create a room.
FreshInit ==
    randomize_inputs(DefinitionValues, OptoutAssignments, Situations, {NoFlags}, {FALSE})

FreshHolders == {"b1", "b2"}

FreshRequesters == {"b3"}

FreshNext ==
    \/ \E b \in FreshHolders : ExpireCart(b)
    \/ \E b \in FreshHolders : ExpireOrder(b)
    \/ \E b \in FreshRequesters, n \in RoomNames : CheckoutJoin(b, n)
    \/ \E b \in FreshRequesters, n \in RoomNames : OrderJoin(b, n)
    \/ \E b \in FreshRequesters, d \in Defs, n \in RoomNames : CheckoutCreate(b, d, n)
    \/ \E b \in FreshRequesters, d \in Defs, n \in RoomNames : OrderCreate(b, d, n)

FreshSpec == FreshInit /\ [][FreshNext]_vars

\* ------------------------------------------- room settings on their own
\* Rooms with their occupants, with the event's host-control setting on or
\* off; the buyers of pending and paid orders post the change form.
ChangeInit ==
    randomize_inputs(OrderDefinitionValues, ItemAssignments, Situations, {NoFlags}, BOOLEAN)

ChangeNext ==
    \E b \in Buyers, password \in Passwords, optout \in BOOLEAN :
        OrderChange(b, password, optout)

ChangeSpec == ChangeInit /\ [][ChangeNext]_vars

\* ------------------------------------------- room deletion on its own
\* Rooms with carts and orders in them; orders pass their payment deadline,
\* the operator adds orders to rooms and deletes rooms.
DeleteInit ==
    randomize_inputs(OrderDefinitionValues, OptoutAssignments, Situations, {NoFlags}, {FALSE})

DeleteNext ==
    \/ \E b \in Buyers : ExpireOrder(b)
    \/ \E r \in 1..MaxRoomPk, o \in Buyers : RoomAddOrder(r, o)
    \/ \E r \in 1..MaxRoomPk : RoomDelete(r)

DeleteSpec == DeleteInit /\ [][DeleteNext]_vars

\* ------------------------------------------- leaving a room on its own
\* Rooms with carts and orders in them; buyers leave their room, or ask to
\* be given a room at random, on the page of their order.
GiveUpInit ==
    randomize_inputs(OrderDefinitionValues, OptoutAssignments, Situations, {NoFlags}, {FALSE})

GiveUpNext ==
    \/ \E b \in Buyers : OrderLeave(b)
    \/ \E b \in Buyers : OrderNone(b)

GiveUpSpec == GiveUpInit /\ [][GiveUpNext]_vars

\* ------------------------------------------- Room.touch on its own
\* Rooms with carts and orders in them; carts and orders lapse and rooms are
\* touched.
TouchInit ==
    randomize_inputs(OrderDefinitionValues, OptoutAssignments, Situations, {NoFlags}, {FALSE})

TouchNext ==
    \/ \E b \in Buyers : ExpireCart(b)
    \/ \E b \in Buyers : ExpireOrder(b)
    \/ \E r \in 1..MaxRoomPk : Touch(r)

TouchSpec == TouchInit /\ [][TouchNext]_vars

\* ------------------------------------------- concurrent requests on their own
\* Rooms with expired carts and orders in them; two requests of buyers begin
\* and end in any order.
ConcurrentSituations == {"paid", "pending", "expired"}

ConcurrentInit ==
    randomize_inputs(OrderDefinitionValues, OptoutAssignments, ConcurrentSituations,
                     {NoFlags}, {FALSE})

ConcurrentNext ==
    \/ \E t \in Txns, req \in Requests : TxnBegin(t, req)
    \/ \E t \in Txns : TxnCommit(t)

ConcurrentSpec == ConcurrentInit /\ [][ConcurrentNext]_vars

\* =========================================================== properties
\* the vocabulary of the specification, section 4.1
ValidOccupantCount(r) == Cardinality(get_valid_room_orders(rooms, orderrooms, r))

ValidRoomCount(d) == get_valid_room_count(rooms, orderrooms, d)

Capacity(r) == definitions[rooms[r].room_definition].capacity

ExtraCapacity(r) == definitions[rooms[r].room_definition].extra_capacity

QuotaHasSpace(d) == ValidRoomCount(d) < definitions[d].max_rooms

RoomHasCapacity(r, includeExtra) ==
    ValidOccupantCount(r) < Capacity(r) + (IF includeExtra THEN ExtraCapacity(r) ELSE 0)

EligibleQuotas(o) == {d \in Defs : positions[o] \cap DefItems[d] # {}}

\* the orders that were unassigned when the running randomizer started
UnassignedAtStart ==
    {o \in Buyers :
        /\ orders[o] = "p"
        /\ EligibleQuotas(o) # {}
        /\ \A k \in DOMAIN alloc.saved_orderrooms : alloc.saved_orderrooms[k].order # o}

\* a step of the randomizer that creates an OrderRoom row
RandomizeJoins ==
    /\ alloc.pc \in {"pass1", "pass2", "pass3"}
    /\ DOMAIN orderrooms' # DOMAIN orderrooms

\* C1: at rest, after any sequence of successful operations, every room has at
\* most capacity + extra_capacity valid occupants.
C1_OccupancyWithinLimits ==
    NotRunning =>
        \A r \in DOMAIN rooms : ValidOccupantCount(r) <= Capacity(r) + ExtraCapacity(r)

\* C2: after a successful room creation (here: a committed randomizer run that
\* created a room in pass 1) every quota has at most max_rooms valid rooms.
C2_QuotaWithinLimitAfterCreation ==
    (last.op = "randomize" /\ last.ok /\ last.created) =>
        \A d \in Defs : ValidRoomCount(d) <= definitions[d].max_rooms

\* C3: Room.has_capacity is true exactly when the valid occupants are fewer
\* than capacity, plus extra_capacity when the flag is set.
C3_HasCapacityIsRoomHasCapacity ==
    \A r \in DOMAIN rooms : \A includeExtra \in BOOLEAN :
        has_capacity(rooms, orderrooms, r, includeExtra) = RoomHasCapacity(r, includeExtra)

\* C4: a run without force that leaves an order unplaced after pass 3 ends
\* with the rooms and memberships it started with.
C4_RollbackWithoutForce ==
    [][(alloc.pc = "end" /\ ~alloc.force /\ alloc.unassigned # <<>>) =>
            (rooms' = alloc.saved_rooms /\ orderrooms' = alloc.saved_orderrooms)]_vars

C4_Witness ==
    /\ last.op = "randomize"
    /\ ~last.force
    /\ last.failed # {}
    /\ last.joined # {}
    /\ last.created

\* C5: a forced run that leaves orders unplaced keeps the membership of every
\* order it placed and reports exactly the unplaced orders.
C5_ForceKeepsPlacements ==
    (last.op = "randomize" /\ last.force /\ last.failed # {}) =>
        /\ \A o \in last.joined : orderroom_of(orderrooms, o) # NoPk
        /\ last.reported = last.failed

\* C6: whenever orders are left unplaced, the run names exactly those orders
\* and ends as a handled outcome, with and without force.
C6_FailureIsReportedAndHandled ==
    (last.op = "randomize" /\ last.failed # {}) =>
        /\ last.reported = last.failed
        /\ last.outcome # "unhandled"

\* C7: when a run ends with an empty failure set, every order that was
\* unassigned at its start has exactly one membership.
C7_CompleteRunAssignsEveryone ==
    [][(alloc.pc = "end" /\ alloc.unassigned = <<>>) =>
            \A o \in UnassignedAtStart :
                Cardinality({k \in DOMAIN orderrooms' : orderrooms'[k].order = o}) = 1]_vars

C7_Witness ==
    /\ last.op = "randomize"
    /\ last.ok
    /\ Cardinality(last.joined) >= 2

\* C8: every membership the randomizer creates is the first membership of an
\* order that was unassigned at the start, in a room of one of that order's
\* eligible quotas.
C8_JoinsOnlyUnassignedIntoEligibleRooms ==
    [][RandomizeJoins =>
            /\ DOMAIN orderrooms' = DOMAIN orderrooms \cup {next_orderroom_pk}
            /\ LET m == orderrooms'[next_orderroom_pk] IN
                /\ m.order \in UnassignedAtStart
                /\ m.cart_id = None
                /\ orderroom_of(orderrooms, m.order) = NoPk
                /\ m.room \in DOMAIN rooms'
                /\ rooms'[m.room].room_definition \in EligibleQuotas(m.order)]_vars

C8_Witness ==
    /\ last.op = "randomize_join"
    /\ last.pass = 2
    /\ Cardinality(EligibleQuotas(last.order)) = 1

\* C9: after a join of pass 1 or 2 the room holds at most capacity valid
\* occupants, after a join of pass 3 at most capacity + extra_capacity.
C9_JoinsRespectLimits ==
    last.op = "randomize_join" =>
        ValidOccupantCount(last.room)
            <= Capacity(last.room) + (IF last.pass = 3 THEN ExtraCapacity(last.room) ELSE 0)

\* C10: when a join takes a room above its normal capacity, no room of the
\* order's eligible quotas has normal capacity left and none of these quotas
\* has space for a new room.
C10_ExtraOnlyWhenNormalExhausted ==
    [][(RandomizeJoins
            /\ LET m == orderrooms'[next_orderroom_pk] IN
               Cardinality(get_valid_room_orders(rooms', orderrooms', m.room))
                    > definitions[rooms'[m.room].room_definition].capacity) =>
            LET o == orderrooms'[next_orderroom_pk].order IN
            /\ \A r \in DOMAIN rooms :
                rooms[r].room_definition \in EligibleQuotas(o) => ~RoomHasCapacity(r, FALSE)
            /\ \A d \in EligibleQuotas(o) : ~QuotaHasSpace(d)]_vars

\* With has_capacity as models.py defines it, the snapshot of pass 3 holds no
\* room that pass 1 and pass 2 have not already tried: pass 3 joins nothing.
Pass3JoinsNothing == ~(last.op = "randomize_join" /\ last.pass = 3)

\* the room refuses automatic overflow (section 4.4, pass 3)
RefusesOverflow(r) ==
    rooms[r].disable_random_extra \/ (allow_optout /\ rooms[r].optout_random_extra)

\* C11: a join of the randomizer into a room that refuses automatic overflow
\* is not a join of pass 3 and leaves the room with at most its normal
\* capacity of valid occupants.
C11_NoOverflowIntoOptedOutRooms ==
    (last.op = "randomize_join" /\ RefusesOverflow(last.room)) =>
        /\ last.pass # 3
        /\ ValidOccupantCount(last.room) <= Capacity(last.room)

\* C12: while the randomizer runs and when it ends, every membership that
\* existed at its start is still there with the same order, cart, room and
\* admin flag; the orders it selects at its start and the order of every
\* membership it creates had no membership.
C12_ExistingMembershipsUntouched ==
    [][/\ (alloc.pc = "idle" /\ alloc'.pc # "idle") =>
            \A o \in Range(alloc'.unassigned) \cup Range(alloc'.tmp) :
                orderroom_of(orderrooms, o) = NoPk
       /\ alloc.pc # "idle" =>
            /\ \A k \in DOMAIN alloc.saved_orderrooms :
                    k \in DOMAIN orderrooms' /\ orderrooms'[k] = alloc.saved_orderrooms[k]
            /\ \A k \in DOMAIN orderrooms' \ DOMAIN orderrooms :
                    \A j \in DOMAIN orderrooms : orderrooms[j].order # orderrooms'[k].order]_vars

C12_Witness ==
    /\ last.op = "randomize"
    /\ last.ok
    /\ last.joined # {}
    /\ \E k \in DOMAIN orderrooms :
        /\ orderrooms[k].order # None
        /\ orders[orderrooms[k].order] = "p"
        /\ orderrooms[k].order \notin last.joined

\* the handlers that delete one membership of a confirmed order
DeletionOps == {"order_leave", "cancel_order", "room_remove_order"}

AdminFlagged(M, r) == {k \in DOMAIN M : M[k].room = r /\ M[k].is_admin}

\* C14: when a deletion leaves at least one valid membership in the room, the
\* room persists and exactly one of its remaining memberships has is_admin.
C14_ExactlyOneAdminAfterDeletion ==
    [][(last'.op \in DeletionOps /\ last'.room # NoPk
            /\ get_valid_room_orders(rooms, orderrooms, last'.room) \ {last'.row} # {}) =>
            /\ last'.room \in DOMAIN rooms'
            /\ Cardinality(AdminFlagged(orderrooms', last'.room)) = 1]_vars

\* C15: between operations no room has more than one membership with
\* is_admin.
C15_AtMostOneAdmin ==
    NotRunning =>
        \A r \in DOMAIN rooms : Cardinality(AdminFlagged(orderrooms, r)) <= 1

\* C16: between operations every room with a valid membership has a valid
\* membership with is_admin.
C16_ValidRoomHasValidAdmin ==
    NotRunning =>
        \A r \in DOMAIN rooms :
            get_valid_room_orders(rooms, orderrooms, r) # {} =>
                \E k \in get_valid_room_orders(rooms, orderrooms, r) : orderrooms[k].is_admin

\* C17: every membership has either an order or a cart id, never both and
\* never neither; a step that gives a cart's membership an order gives it
\* the order of that cart and clears the cart id.
C17_ExactlyOneOfOrderAndCart ==
    /\ [](\A k \in DOMAIN orderrooms :
            (orderrooms[k].order = None) # (orderrooms[k].cart_id = None))
    /\ [][\A k \in DOMAIN orderrooms \cap DOMAIN orderrooms' :
            (orderrooms[k].cart_id # None /\ orderrooms'[k].order # None) =>
                /\ orderrooms'[k].order = orderrooms[k].cart_id
                /\ orderrooms'[k].cart_id = None
                /\ orderrooms'[k].room = orderrooms[k].room]_vars

\* an order was placed whose cart had created a room: the membership now
\* belongs to the order, next to a membership that is still a cart's
C17_Witness ==
    /\ last.op = "place_order"
    /\ last.ok
    /\ \E k, j \in DOMAIN orderrooms :
        /\ orderrooms[k].order # None
        /\ orders[orderrooms[k].order] = "n"
        /\ orderrooms[k].is_admin
        /\ orderrooms[j].cart_id # None

\* the handlers that give a confirmed order a membership
AddOps == {"order_join", "order_create", "room_add_order"}

\* C18: no order has two memberships; a join, a create or an operator add
\* for an order that has a membership fails and changes no room and no
\* membership.
C18_OneMembershipPerOrder ==
    /\ [](\A o \in Buyers :
            Cardinality({k \in DOMAIN orderrooms : orderrooms[k].order = o}) <= 1)
    /\ [][(last'.op \in AddOps /\ orderroom_of(orderrooms, last'.order) # NoPk) =>
            /\ ~last'.ok
            /\ orderrooms' = orderrooms
            /\ rooms' = rooms]_vars

\* the last request was refused for an order that sits in a room
C18_Witness ==
    /\ last.op \in AddOps
    /\ ~last.ok
    /\ orderroom_of(orderrooms, last.order) # NoPk
    /\ orders[last.order] = "n"

\* the mode table of section 4.5
ModeTable(meta) ==
    \/ meta.room_mode = "join" /\ meta.room_create = NoPk /\ meta.room_join # NoPk
    \/ meta.room_mode = "create" /\ meta.room_create # NoPk /\ meta.room_join # NoPk
    \/ meta.room_mode \in {"none", "absent"}
            /\ meta.room_create = NoPk /\ meta.room_join = NoPk

\* the errors raised before the mode check is reached
EarlierErrors == {"invalid_room", "invalid_order_room", "no_items"}

\* C19: a confirmation that reaches the mode check passes it exactly for the
\* combinations of the mode table; for every other combination and every
\* other room_mode the order is refused.
C19_ModeTable ==
    (last.op = "place_order" /\ last.error \notin EarlierErrors) =>
        /\ last.ok <=> ModeTable(last.meta)
        /\ ~ModeTable(last.meta) => last.error \in {"mode_join", "mode_create",
                                                    "mode_none", "mode_invalid"}

\* room_mode is join and a room_create is recorded: the order is refused
C19_Witness ==
    /\ last.op = "place_order"
    /\ last.meta.room_mode = "join"
    /\ last.meta.room_create # NoPk
    /\ last.meta.room_join \in DOMAIN orderrooms
    /\ last.error = "mode_join"

\* C20: an order confirmed with room_mode join or create has, in room_join,
\* the pk of an existing membership that counts as a valid occupant of its
\* room and whose room's quota sells an item of the order's cart.
C20_JoinOrCreateNeedsValidMembership ==
    [][(last'.op = "place_order" /\ last'.ok
            /\ last'.meta.room_mode \in {"join", "create"}) =>
            LET j == last'.meta.room_join IN
            /\ j \in DOMAIN orderrooms
            /\ valid_filter(orderrooms[j], rooms[orderrooms[j].room].room_definition)
            /\ positions[last'.order]
                    \cap DefItems[rooms[orderrooms[j].room].room_definition] # {}]_vars

\* C21: an order confirmed with room_mode join or create has, right after
\* its placement, exactly one membership, and that membership is the one
\* its session recorded, now carrying the order and no cart id.
C21_ConfirmedIntentHasMembership ==
    (last.op = "place_order" /\ last.ok /\ last.meta.room_mode \in {"join", "create"}) =>
        /\ Cardinality({k \in DOMAIN orderrooms : orderrooms[k].order = last.order}) = 1
        /\ orderroom_of(orderrooms, last.order) = last.meta.room_join
        /\ orderrooms[last.meta.room_join].cart_id = None

\* the membership of holder b (a cart session or a confirmed order), or NoPk
membership_of(M, b) ==
    IF orders[b] = "absent" THEN orderroom_of_cart(M, b) ELSE orderroom_of(M, b)

\* a join request of holder b for the room named n that passes the join form
JoinRequest(b, n) ==
    /\ CheckoutJoin(b, n) \/ OrderJoin(b, n)
    /\ join_form_valid(n)

\* C22: a join request for a room that has no normal capacity left, by a
\* holder who is not already in that room, fails and changes no room and no
\* membership.
C22_FullRoomRefusesJoin ==
    [][\A b \in Buyers, n \in RoomNames :
        (/\ JoinRequest(b, n)
         /\ ~RoomHasCapacity(room_named(rooms, n), FALSE)
         /\ membership_of(orderrooms, b) # NoPk =>
                orderrooms[membership_of(orderrooms, b)].room # room_named(rooms, n)) =>
            /\ ~last'.ok
            /\ rooms' = rooms
            /\ orderrooms' = orderrooms]_vars

\* a create request of holder b for a room named n under quota d
CreateRequest(b, d, n) == CheckoutCreate(b, d, n) \/ OrderCreate(b, d, n)

\* C23: a create request under an eligible quota with space, by a holder without a
\* membership, for the name of an existing room: when the room has a valid
\* membership the request fails and nothing changes; when it has none the
\* request succeeds, the room is kept under its pk with the requested quota
\* and the holder becomes its administrator.
C23_CreateUnderExistingName ==
    [][\A b \in Buyers, d \in Defs, n \in RoomNames :
        (/\ CreateRequest(b, d, n)
         /\ room_named(rooms, n) # NoPk
         /\ d \in available_room_definitions(b)
         /\ membership_of(orderrooms, b) = NoPk) =>
            LET r == room_named(rooms, n) IN
            IF Room_is_valid(rooms, orderrooms, r)
            THEN /\ ~last'.ok
                 /\ rooms' = rooms
                 /\ orderrooms' = orderrooms
            ELSE /\ last'.ok
                 /\ r \in DOMAIN rooms'
                 /\ rooms'[r].name = n
                 /\ rooms'[r].room_definition = d
                 /\ membership_of(orderrooms', b) # NoPk
                 /\ orderrooms'[membership_of(orderrooms', b)].room = r
                 /\ orderrooms'[membership_of(orderrooms', b)].is_admin]_vars

\* the step puts a membership into room r (a new row, or a row moved there)
MembershipAddedTo(r) ==
    \E k \in DOMAIN orderrooms' :
        /\ orderrooms'[k].room = r
        /\ k \in DOMAIN orderrooms => orderrooms[k].room # r

\* the handlers that join or create, other than pass 3 of the randomizer
NormalCapacityOps == {"checkout_join", "checkout_create", "order_join", "order_create"}

\* C24: a checkout join, a post-order join, a create or a join of pass 1 or
\* 2 that puts a membership into a room leaves that room with at most its
\* normal capacity of valid occupants.
C24_ExtraSlotsOnlyInPass3 ==
    [][\A r \in DOMAIN rooms' :
        (/\ MembershipAddedTo(r)
         /\ \/ last'.op \in NormalCapacityOps
            \/ last'.op = "randomize_join" /\ last'.pass # 3) =>
            Cardinality(get_valid_room_orders(rooms, orderrooms, r)')
                <= definitions[rooms'[r].room_definition].capacity]_vars

\* C25: a membership is valid by OrderRoom.is_valid exactly when it is one
\* of the valid occupants counted for its room (and so makes the room count
\* for its quota), whether it belongs to a cart or to an order.
C25_ValidityAgreesWithCount ==
    \A k \in DOMAIN orderrooms :
        OrderRoom_is_valid(orderrooms[k])
            <=> k \in get_valid_room_orders(rooms, orderrooms, orderrooms[k].room)

\* the hold of membership m lapsed: its cart expired, or its order left
\* the statuses pending and paid
Lapsed(m) ==
    \/ m.cart_id # None /\ cart[m.cart_id] = "expired"
    \/ m.order # None /\ orders[m.order] \notin STATUS_VALID

LapsedIn(r) == {k \in DOMAIN orderrooms : orderrooms[k].room = r /\ Lapsed(orderrooms[k])}

\* room r has normal capacity left, and would have none if its lapsed
\* memberships still counted
FreedByLapse(r) ==
    /\ RoomHasCapacity(r, FALSE)
    /\ ValidOccupantCount(r) + Cardinality(LapsedIn(r)) >= Capacity(r)

\* quota d has space, and would have none if the rooms that only hold
\* lapsed memberships still counted
QuotaFreedByLapse(d) ==
    /\ QuotaHasSpace(d)
    /\ ValidRoomCount(d)
            + Cardinality({r \in DOMAIN rooms :
                    /\ rooms[r].room_definition = d
                    /\ ValidOccupantCount(r) = 0
                    /\ LapsedIn(r) # {}})
         >= definitions[d].max_rooms

\* holder b may ask for a room: a cart, or an order without a membership
MayAsk(b) == orders[b] = "absent" \/ orderroom_of(orderrooms, b) = NoPk

\* a join into a valid room that a lapsed hold has freed is accepted
LapseFreesRoom ==
    \A b \in Buyers, n \in RoomNames :
        (/\ JoinRequest(b, n)
         /\ MayAsk(b)
         /\ FreedByLapse(room_named(rooms, n))
         /\ membership_of(orderrooms, b) # NoPk =>
                orderrooms[membership_of(orderrooms, b)].room # room_named(rooms, n)) =>
            /\ last'.ok
            /\ membership_of(orderrooms', b) # NoPk
            /\ orderrooms'[membership_of(orderrooms', b)].room = room_named(rooms, n)

\* a create under a quota that a lapsed hold has freed is accepted
LapseFreesQuota ==
    \A b \in Buyers, d \in Defs, n \in RoomNames :
        (/\ CreateRequest(b, d, n)
         /\ MayAsk(b)
         /\ d \in definitions_of(positions[b])
         /\ QuotaFreedByLapse(d)
         /\ room_named(rooms, n) = NoPk) =>
            /\ last'.ok
            /\ room_named(rooms', n) # NoPk
            /\ rooms'[room_named(rooms', n)].room_definition = d

\* a join into a room whose holds have all lapsed finds no room
LapseHidesRoom ==
    \A b \in Buyers, n \in RoomNames :
        (/\ CheckoutJoin(b, n) \/ OrderJoin(b, n)
         /\ room_named(rooms, n) # NoPk
         /\ ValidOccupantCount(room_named(rooms, n)) = 0
         /\ LapsedIn(room_named(rooms, n)) # {}) =>
            /\ ~last'.ok
            /\ rooms' = rooms
            /\ orderrooms' = orderrooms

\* C26: once a cart expired or an order left pending/paid, its membership
\* no longer counts for the next request: a room freed by the lapse accepts
\* a join, a quota freed by the lapse accepts a create, and a room left
\* without valid membership is not found by a join.
C26_LapsedHoldsStopCounting ==
    [][LapseFreesRoom /\ LapseFreesQuota /\ LapseHidesRoom]_vars

\* C27: a step changes a room's password or opt-out flag only when the
\* change form was posted for an order whose membership is in that room and
\* has is_admin; a post for an order that is no administrator or has no
\* membership fails and leaves every room and membership as it was.
C27_OnlyAdminChangesRoom ==
    [][/\ \A r \in DOMAIN rooms \cap DOMAIN rooms' :
            (\/ rooms'[r].password # rooms[r].password
             \/ rooms'[r].optout_random_extra # rooms[r].optout_random_extra) =>
                /\ last'.op = "order_change"
                /\ last'.ok
                /\ orderroom_of(orderrooms, last'.order) # NoPk
                /\ orderrooms[orderroom_of(orderrooms, last'.order)].room = r
                /\ orderrooms[orderroom_of(orderrooms, last'.order)].is_admin
       /\ (/\ last'.op = "order_change"
           /\ \/ orderroom_of(orderrooms, last'.order) = NoPk
              \/ ~orderrooms[orderroom_of(orderrooms, last'.order)].is_admin) =>
                /\ ~last'.ok
                /\ rooms' = rooms
                /\ orderrooms' = orderrooms]_vars

\* a non-admin occupant was refused in a room whose administrator had
\* changed the password and set the opt-out flag
C27_Witness ==
    /\ last.op = "order_change"
    /\ ~last.ok
    /\ orderroom_of(orderrooms, last.order) # NoPk
    /\ LET r == orderrooms[orderroom_of(orderrooms, last.order)].room IN
        /\ rooms[r].password # CreatePassword
        /\ rooms[r].optout_random_extra

\* C28: after the operator's delete request for a room has succeeded, the
\* room is absent and no membership, of an order or of a cart, valid or
\* not, references it.
C28_DeletedRoomIsGone ==
    (last.op = "room_delete" /\ last.ok) =>
        /\ last.room \notin DOMAIN rooms
        /\ \A k \in DOMAIN orderrooms : orderrooms[k].room # last.room

\* every request that began has ended
AllDone == \A t \in Txns : txn[t].pc # "open"

\* C29: once every concurrent join and create has ended, every room has at
\* most capacity + extra_capacity valid occupants and every quota at most
\* max_rooms valid rooms; two joins into a room with one free slot do not
\* both commit.
C29_ConcurrentRequestsKeepLimits ==
    AllDone =>
        /\ \A r \in DOMAIN rooms : ValidOccupantCount(r) <= Capacity(r) + ExtraCapacity(r)
        /\ \A d \in Defs : ValidRoomCount(d) <= definitions[d].max_rooms

\* C30: once every concurrent request has ended, a room that a committed
\* leave took a membership from is absent, with no membership left that
\* references it, when it has no valid membership, and otherwise has
\* exactly one membership with is_admin.
C30_ConcurrentDeletionsKeepOneAdmin ==
    AllDone =>
        \A t \in Txns :
            (/\ txn[t].pc = "done"
             /\ txn[t].req.op = "order_leave"
             /\ txn[t].outcome = "committed") =>
                LET r == txn[t].room IN
                IF r \in DOMAIN rooms /\ Room_is_valid(rooms, orderrooms, r)
                THEN Cardinality(AdminFlagged(orderrooms, r)) = 1
                ELSE /\ r \notin DOMAIN rooms
                     /\ \A k \in DOMAIN orderrooms : orderrooms[k].room # r

\* the rooms the running randomizer has created
CreatedRooms == DOMAIN rooms \ DOMAIN alloc.saved_rooms

\* C31: the membership the randomizer creates together with a room carries
\* is_admin and every membership it adds to a room that exists carries none;
\* while the run is in progress and when it commits, each room it created has
\* at least one membership and exactly one membership with is_admin.
C31_CreatedRoomHasOneAdmin ==
    [][/\ RandomizeJoins =>
            LET m == orderrooms'[next_orderroom_pk] IN
            /\ m.is_admin = (m.room \notin DOMAIN rooms)
            /\ m.room \notin DOMAIN rooms => alloc.pc = "pass1"
       /\ alloc.pc # "idle" =>
            \A r \in DOMAIN rooms' \ DOMAIN alloc.saved_rooms :
                /\ \E k \in DOMAIN orderrooms' : orderrooms'[k].room = r
                /\ Cardinality(AdminFlagged(orderrooms', r)) = 1]_vars

\* a run committed after creating a room that took a second order
C31_Witness ==
    /\ last.op = "randomize"
    /\ last.ok
    /\ last.created
    /\ \E r \in DOMAIN rooms :
        /\ \A k \in DOMAIN orderrooms :
                orderrooms[k].room = r => orderrooms[k].order \in last.joined
        /\ Cardinality({k \in DOMAIN orderrooms : orderrooms[k].room = r}) >= 2

\* the tables as order o found them at its turn in pass 1
TurnRooms(o) == alloc.turn[o].rooms

TurnOrderRooms(o) == alloc.turn[o].orderrooms

\* C32: the randomizer adds an order to a room that existed before the run
\* only if, at the order's turn in pass 1, no room created by the run under
\* one of the order's eligible quotas had normal capacity left and none of
\* these quotas had space for a new room.
C32_ExistingRoomsAfterCreatedRooms ==
    [][(RandomizeJoins /\ orderrooms'[next_orderroom_pk].room \in DOMAIN alloc.saved_rooms) =>
            LET o == orderrooms'[next_orderroom_pk].order IN
            /\ o \in DOMAIN alloc.turn
            /\ \A r \in DOMAIN TurnRooms(o) \ DOMAIN alloc.saved_rooms :
                TurnRooms(o)[r].room_definition \in EligibleQuotas(o) =>
                    Cardinality(get_valid_room_orders(TurnRooms(o), TurnOrderRooms(o), r))
                        >= definitions[TurnRooms(o)[r].room_definition].capacity
            /\ \A d \in EligibleQuotas(o) :
                get_valid_room_count(TurnRooms(o), TurnOrderRooms(o), d)
                    >= definitions[d].max_rooms]_vars

\* C33: when pass 2 carries an order over to pass 3, no room of the event
\* under one of the order's eligible quotas, whether it existed before the
\* run or was created in pass 1, has normal capacity left.
C33_Pass2TriesEveryRoom ==
    [][(alloc.pc = "pass2" /\ last'.op = "randomize_defer") =>
            LET o == Head(alloc.unassigned) IN
            \A r \in DOMAIN rooms :
                rooms[r].room_definition \in EligibleQuotas(o) => ~RoomHasCapacity(r, FALSE)]_vars

\* what a run decided, without the generated names, passwords and keys: the
\* occupants of every room with their admin flags, and the unplaced orders
Placement(R, M, unplaced) ==
    [groups |-> {[definition |-> R[r].room_definition,
                  members |-> {[order |-> M[k].order, cart_id |-> M[k].cart_id,
                                is_admin |-> M[k].is_admin] :
                               k \in {j \in DOMAIN M : M[j].room = r}}] : r \in DOMAIN R},
     failed |-> Range(unplaced)]

C35_RunKeepsQuotaBound ==
    [][(/\ alloc.pc = "end"
        /\ \A d \in Defs :
            get_valid_room_count(alloc.saved_rooms, alloc.saved_orderrooms, d)
                <= definitions[d].max_rooms) =>
            \A d \in Defs :
                get_valid_room_count(rooms', orderrooms', d) <= definitions[d].max_rooms]_vars

\* a room-step submission of buyer b during checkout
RoomStepSubmission(b) ==
    \/ \E n \in RoomNames : CheckoutJoin(b, n)
    \/ \E d \in Defs, n \in RoomNames : CheckoutCreate(b, d, n)
    \/ CheckoutNone(b)
    \/ CheckoutNoChange(b)

\* C36: after a successful room-step submission of a buyer, the room_mode,
\* room_create and room_join recorded in the buyer's session pass the mode
\* check of room_validate_order, and while the buyer's cart has not expired
\* the whole of room_validate_order passes.
C36_SessionPassesValidation ==
    [][\A b \in Buyers :
        (RoomStepSubmission(b) /\ last'.ok) =>
            /\ mode_check(session'[b].room_mode, session'[b].room_create,
                          session'[b].room_join) = "nothing"
            /\ cart'[b] = "valid" => (room_validate_order(b) = "nothing")']_vars

\* the places an order can be put: a room the run started with, or one of
\* the new rooms of a quota (no more are needed than there are orders)
OldPlaces ==
    {[quota |-> alloc.saved_rooms[r].room_definition, room |-> r, slot |-> 0] :
        r \in DOMAIN alloc.saved_rooms}

NewPlaces == [quota : Defs, room : {NoPk}, slot : 1..Cardinality(Buyers)]

Places == OldPlaces \cup NewPlaces

\* the valid occupants place p had when the run started
PlaceOccupants(p) ==
    IF p.room = NoPk THEN 0
    ELSE Cardinality(get_valid_room_orders(alloc.saved_rooms, alloc.saved_orderrooms, p.room))

\* the occupants place p may hold, the overflow slots included unless the
\* room refuses automatic overflow
PlaceLimit(p) ==
    definitions[p.quota].capacity
    + (IF \/ p.room = NoPk
          \/ ~(alloc.saved_rooms[p.room].disable_random_extra
               \/ (allow_optout /\ alloc.saved_rooms[p.room].optout_random_extra))
       THEN definitions[p.quota].extra_capacity ELSE 0)

\* an assignment of every order that was unassigned at the start to a place
\* of one of its eligible quotas, within the occupancy limit of every place
\* and the max_rooms of every quota
Assignable ==
    \E f \in [UnassignedAtStart -> Places] :
        /\ \A o \in UnassignedAtStart : f[o].quota \in EligibleQuotas(o)
        /\ \A p \in Places :
            LET added == Cardinality({o \in UnassignedAtStart : f[o] = p}) IN
            added > 0 => PlaceOccupants(p) + added <= PlaceLimit(p)
        /\ \A d \in Defs :
            Cardinality({p \in Places :
                /\ p.quota = d
                /\ PlaceOccupants(p) > 0 \/ \E o \in UnassignedAtStart : f[o] = p})
                <= definitions[d].max_rooms

\* C37: when the orders that are unassigned at the start of a run without
\* force can all be assigned within eligibility, max_rooms, normal and extra
\* capacity and the opt-out flags, the run ends with an empty failure list.
C37_GreedyIsComplete ==
    (alloc.pc = "end" /\ ~alloc.force /\ Assignable) => alloc.unassigned = <<>>

\* C38: a post of room_mode none on the page of an order that has a
\* membership leaves the order as it was, and either changes no room and no
\* membership or does what the deletion of that one membership does (the
\* membership removed, its room touched).
C38_NoneKeepsTheOrder ==
    [][\A b \in Buyers :
        (OrderNone(b) /\ has_orderroom(orderrooms, b)) =>
            LET del == delete_orderroom(rooms, orderrooms, orderroom_of(orderrooms, b)) IN
            /\ orders' = orders
            /\ placed' = placed
            /\ \/ rooms' = rooms /\ orderrooms' = orderrooms
               \/ rooms' = del.rooms /\ orderrooms' = del.orderrooms]_vars

\* the memberships a step gave the admin flag
Promoted == {k \in DOMAIN orderrooms' : orderrooms'[k].is_admin /\ ~orderrooms[k].is_admin}

\* touch promotes only valid memberships of the room it is called on
TouchPromotesValid(r) ==
    Promoted \subseteq get_valid_room_orders(rooms, orderrooms, r)

\* touch changes nothing when the room has a valid membership with is_admin
TouchKeepsValidAdmin(r) ==
    (\E k \in get_valid_room_orders(rooms, orderrooms, r) : orderrooms[k].is_admin) =>
        (rooms' = rooms /\ orderrooms' = orderrooms)

\* a second touch of the room right after the first runs and changes nothing
TouchTwiceIsOnce(r) ==
    /\ ~touch_raises(rooms', r)
    /\ touch(rooms', orderrooms', r) = [rooms |-> rooms', orderrooms |-> orderrooms']

\* C39: a touch of a room promotes only valid memberships of that room,
\* changes nothing when the room has a valid membership with is_admin, and
\* run a second time has no further effect.
C39_TouchIsIdempotent ==
    [][\A r \in DOMAIN rooms :
        Touch(r) => TouchPromotesValid(r) /\ TouchKeepsValidAdmin(r) /\ TouchTwiceIsOnce(r)]_vars

====
